---- MODULE Spec2Model ----
(***************************************************************************)
(* The token lifecycle of the CavosWallet session object.                  *)
(*                                                                         *)
(* One wallet object is modelled together with the things it talks to: the *)
(* refresh endpoint (which rotates refresh tokens), the execute and swap   *)
(* endpoints, and the secure store.  The host application calls the public *)
(* methods; an async method runs atomically between two awaits, so each    *)
(* action below is the code from one await to the next.  Several calls may *)
(* be in flight at once (Procs).                                           *)
(*                                                                         *)
(* Three revisions of the class are covered, chosen at construction:       *)
(*   "secure"  src/src/CavosWallet.ts        tokens persisted in SecureStore*)
(*   "memory"  src/unnamed/part_004:409-742  tokens held in memory only    *)
(*   "legacy"  src/unnamed/part_006:1-55     no tokens, executeCalls only  *)
(*                                                                         *)
(* Tokens are numbered: the backend's k-th token pair is access token k    *)
(* and refresh token k.                                                    *)
(*                                                                         *)
(* Further specifications over the same variables:                         *)
(*   ExecSpec   the wallet operations under every gateway status and body  *)
(*   BioSpec    the revisions with biometric confirmation                  *)
(*              (part_004:30-360, part_006:77-367)                         *)
(*   LoginSpec  the sign-in buttons (part_003, AppleLoginButton.tsx and    *)
(*              the Google button of README.md)                            *)
(*   JsonSpec   toJSON of every revision of the class                      *)
(*   CallbackSpec    reading user_data from the callback URL               *)
(*   TwoSpec         two wallet objects sharing the secure store           *)
(*   SequentialSpec  the secure-store revision, one call after another     *)
(*   StoreSpec       the secure-store revision, two calls at once          *)
(*   PairSpec        execute beside executeCalls with a one-entry list     *)
(*   JwtSpec         isTokenExpired of the revisions that decode the token *)
(*   CheckedSpec     the revision that asks the backend about its token    *)
(*   LiveSpec        the wallet and the buttons when every await resumes   *)
(***************************************************************************)
EXTENDS Integers, FiniteSets, Sequences, TLC

VARIABLES variant, identity, accessToken, refreshToken, tokenExpiry,
          store, now, srvValid, srvUsed, nextTok, reuseSent, call,
          login, ser, cb, peer, trial

vars == <<variant, identity, accessToken, refreshToken, tokenExpiry,
          store, now, srvValid, srvUsed, nextTok, reuseSent, call,
          login, ser, cb, peer, trial>>

\* The wallet object and what it talks to.
wallet == <<variant, identity, accessToken, refreshToken, tokenExpiry,
            store, now, srvValid, srvUsed, nextTok, reuseSent, call>>

backend == <<srvValid, srvUsed, nextTok>>

\* What stands beside the wallet object: a mounted sign-in button, objects
\* being serialized, a callback URL being parsed, a second wallet object,
\* a method being tried on given inputs.
beside == <<login, ser, cb, peer, trial>>

---------------------------------------------------------------------------
(* Bounds and constants *)

\* Token pairs the backend issues in one run (logins and rotations).
MaxTok == 2
\* The instant of construction, in ms.
T0 == 1000000
\* expires_in of every issued access token, in seconds.
ExpiresIn == 301

\* The early-refresh margin of isTokenExpired, in ms.
SkewMs == 300000
\* null
Null == -1

Procs == {1, 2}
Variants == {"secure", "memory", "legacy"}

\* How long after its timestamp a token starts to count as expired.
Life == ExpiresIn * 1000 - SkewMs
\* The instants the clock visits: construction, and the three instants
\* around the expiry threshold of a token stamped T0.
Instants == {T0, T0 + Life - 1, T0 + Life, T0 + Life + 1}

AuthRequiredMsg == "Authentication required. Please login again."
NoBiometricMsg == "No biometric authentication available"
BiometricFailedMsg == "Biometric authentication failed"
BiometricRequiredMsg == "Biometric authentication required."
HttpErrorMsg == "Error executing calls: 500 boom"
NetErrorMsg == "Network request failed"
JsonErrorMsg == "JSON Parse error: Unexpected token"
TypeErrorMsg == "Cannot read property 'transactionHash' of undefined"
LegacyThrowMsg == "Error executing calls"
StoreThrowMsg == "Failed to store authentication data securely"

---------------------------------------------------------------------------
(* Values *)

\* JavaScript's !v for the values the token fields hold.
Falsy(v) == v = Null \/ v = 0

\* The AuthData the backend returns for token pair k, stamped ts.  The
\* identity it carries is the backend's rendering, which need not be what
\* the constructor was given.
AuthData(k, ts) ==
    [accessToken |-> k, refreshToken |-> k, expiresIn |-> ExpiresIn,
     timestamp |-> ts, user_id |-> "auth0|u1", email |-> "A@B.com",
     org_id |-> "org-1"]

\* No record (an absent SecureStore item, no pending AuthData).
NoAuth ==
    [accessToken |-> Null, refreshToken |-> Null, expiresIn |-> Null,
     timestamp |-> Null, user_id |-> "", email |-> "", org_id |-> ""]

NoResult == [kind |-> "none", msg |-> ""]
Err(m) == [kind |-> "error", msg |-> m]
Thrown(m) == [kind |-> "throw", msg |-> m]
Value(k) == [kind |-> k, msg |-> ""]

\* No response; a response of the refresh endpoint; a response of the
\* execute or swap endpoint (status and body text matter when it is not 2xx).
NoResp == [kind |-> "none", pair |-> Null, status |-> 0, body |-> ""]
RefreshResp(kind, k) == [NoResp EXCEPT !.kind = kind, !.pair = k]
GatewayResp(kind, st, b) ==
    [NoResp EXCEPT !.kind = kind, !.status = st, !.body = b]

IdleCall ==
    [pc |-> "idle", op |-> "none", sent |-> Null, resp |-> NoResp,
     pend |-> NoAuth, result |-> NoResult, nRefresh |-> 0, nGateway |-> 0,
     refreshFailed |-> FALSE, bioAuth |-> FALSE, bio |-> "none",
     nBio |-> 0]

NewCall(o) == [IdleCall EXCEPT !.op = o]

Finish(c, r) == [c EXCEPT !.pc = "done", !.result = r, !.resp = NoResp,
                          !.pend = NoAuth, !.sent = Null]

WalletOps == {"execute", "executeCalls", "swap"}

\* The wallet operations each revision has.
OpsOf(v) ==
    CASE v = "secure" -> {"execute", "swap"}
      [] v = "memory" -> {"execute", "executeCalls", "swap"}
      [] OTHER        -> {"executeCalls"}

CanStart(p) == call[p].pc \in {"idle", "done"}

---------------------------------------------------------------------------
(* Values of the sign-in buttons *)

\* The revisions of the sign-in button: part_003 (Apple, with callbacks),
\* src/src/AppleLoginButton.tsx (Apple, takes no callbacks) and the Google
\* button listed in README.md.
Buttons == {"apple", "appleBare", "google"}

\* What the host passes for onSuccess / onError: nothing, a function that
\* returns, a function that throws.
Handlers == {"absent", "returns", "throws"}

\* The props each revision takes.
HandlersOf(b) == IF b = "appleBare" THEN {"absent"} ELSE Handlers

NoUserDataMsg == "No user data received"
CancelledMsg == "Authentication cancelled"
AuthFailedMsg == "Authentication failed"
AppleUrlHttpMsg == "Failed to get Apple login URL: 500 boom"
GoogleUrlHttpMsg == "Failed to get Google login URL: 500 boom"
BodyUsedMsg == "Already read"
ParseUserDataMsg ==
    "Failed to parse user data: JSON Parse error: Unexpected token"
PayloadTypeErrorMsg == "Cannot read property 'address' of undefined"
ParsePayloadMsg ==
    "Failed to parse user data: Cannot read property 'address' of undefined"
HandlerPayloadMsg == "Failed to parse user data: handler failed"
HandlerThrowMsg == "handler failed"
BrowserRejectMsg == "Could not open the browser"

\* The orgToken prop of the button.
OrgToken == "org-secret"

\* A CavosWallet object as a value; no object.
NoSession ==
    [revision |-> "none", address |-> "", network |-> "", email |-> "",
     user_id |-> "", org_id |-> "", orgSecret |-> "",
     accessToken |-> Null, refreshToken |-> Null, tokenExpiry |-> Null]

\* The user_data the backend appends to the callback URL for token pair k
\* issued at ts; no payload.
Payload(k, ts) ==
    [wallet |-> [address |-> "0xabc", network |-> "mainnet"],
     email |-> "user@example.com", user_id |-> "auth0|u1",
     org_id |-> "org-1", clientId |-> "client-1", domain |-> "cavos.auth0",
     authData |-> AuthData(k, ts)]

NoPayload ==
    [wallet |-> [address |-> "", network |-> ""], email |-> "",
     user_id |-> "", org_id |-> "", clientId |-> "", domain |-> "",
     authData |-> NoAuth]

\* One button: its props, the position of handleLogin, and what the
\* attempt under way has done so far.
NewLogin(b, s, e) ==
    [button |-> b, onSuccess |-> s, onError |-> e, pc |-> "Idle",
     loading |-> FALSE, attempts |-> 0, nSuccess |-> 0, nError |-> 0,
     errors |-> <<>>, opened |-> FALSE, answer |-> "none",
     payload |-> NoPayload, session |-> NoSession, escaped |-> FALSE]

\* No button is mounted.
NoLogin == [button |-> "none"]

\* What toJSON returns: the keys of the object and their values (a key
\* that is not there has the value of an empty session).
NoJson == [keys |-> {}, fields |-> NoSession]

\* Two wallet objects and what toJSON returned for each; none.
Ser(a, b) == [pc |-> "ready", a |-> a, b |-> b,
              outA |-> NoJson, outB |-> NoJson]
NoSer == [pc |-> "none"]

\* No callback URL is being parsed.
NoCb == [pc |-> "none"]

\* No second wallet object exists.
NoPeer == [pc |-> "none"]

\* No method is being tried.
NoTrial == [pc |-> "none"]

---------------------------------------------------------------------------
(* Token State *)

\* A number that is missing is undefined, and arithmetic on it gives NaN.
\* The token fields are only ever tested with ! and >=, under which
\* undefined, NaN and null behave alike, so all three are written Null.
Times(x, y) == IF x = Null \/ y = Null THEN Null ELSE x * y
Plus(x, y) == IF x = Null \/ y = Null THEN Null ELSE x + y

\* isTokenExpired with the comparison off by one (> for >=).
IsTokenExpiredOf_Strict(acc, exp, t) ==
    IF Falsy(exp) \/ Falsy(acc) THEN TRUE ELSE t > exp - SkewMs

IsTokenExpiredOf(acc, exp, t) ==
    IF Falsy(exp) \/ Falsy(acc) THEN TRUE ELSE t >= exp - SkewMs

IsTokenExpired == IsTokenExpiredOf(accessToken, tokenExpiry, now)

\* setAuthData that also takes over the identity the AuthData carries.
SetAuthData_CopyIdentity(a) ==
    /\ accessToken' = a.accessToken
    /\ refreshToken' = a.refreshToken
    /\ tokenExpiry' = Plus(a.timestamp, Times(a.expiresIn, 1000))
    /\ identity' = [identity EXCEPT !.user_id = a.user_id,
                                    !.email = a.email, !.org_id = a.org_id]

\* setAuthData that counts the lifetime from the instant it runs.
SetAuthData_FromNow(a) ==
    /\ accessToken' = a.accessToken
    /\ refreshToken' = a.refreshToken
    /\ tokenExpiry' = Plus(now, Times(a.expiresIn, 1000))
    /\ identity' = identity

SetAuthData(a) ==
    /\ accessToken' = a.accessToken
    /\ refreshToken' = a.refreshToken
    /\ tokenExpiry' = Plus(a.timestamp, Times(a.expiresIn, 1000))
    /\ identity' = identity

KeepSession == UNCHANGED <<accessToken, refreshToken, tokenExpiry, identity>>

\* getValidAccessToken that hands out the token it holds whether or not the
\* refresh succeeded.
GetValidAccessToken_IgnoreFailure(refreshSuccess, acc) == acc

\* getValidAccessToken once the refresh (if any) has settled.
GetValidAccessToken(refreshSuccess, acc) ==
    IF ~refreshSuccess THEN Null ELSE acc

\* execute/swap/executeCalls after `await this.getValidAccessToken()`.
Dispatch(c, token) ==
    IF Falsy(token)
    THEN Finish(c, Err(AuthRequiredMsg))
    ELSE [c EXCEPT !.pc = "gatewayWait", !.sent = token, !.resp = NoResp,
                   !.pend = NoAuth, !.nGateway = @ + 1]

\* A wallet operation that sends the refresh request again when the first
\* one failed.
OnRefreshFailure_Retry(c, acc) ==
    IF c.pc = "refreshResp" /\ c.nRefresh < 2
    THEN [c EXCEPT !.pc = "refreshWait", !.nRefresh = @ + 1, !.resp = NoResp]
    ELSE Dispatch([c EXCEPT !.refreshFailed = TRUE],
                  GetValidAccessToken(FALSE, acc))

\* A wallet operation that sends the refresh request again, however often
\* it is refused.
OnRefreshFailure_RetryForever(c, acc) ==
    IF c.pc = "refreshResp"
    THEN [c EXCEPT !.pc = "refreshWait", !.resp = NoResp]
    ELSE Dispatch([c EXCEPT !.refreshFailed = TRUE],
                  GetValidAccessToken(FALSE, acc))

\* A wallet operation whose refresh returned false: getValidAccessToken
\* returns null and the operation returns the authentication failure.
OnRefreshFailure(c, acc) ==
    Dispatch([c EXCEPT !.refreshFailed = TRUE],
             GetValidAccessToken(FALSE, acc))

---------------------------------------------------------------------------
(* Construction *)

ExpiryOf(a) == Plus(a.timestamp, Times(a.expiresIn, 1000))

\* src/src/CavosWallet.ts: new CavosWallet(..., authData?)
ConstructSecure(a) ==
    /\ accessToken = a.accessToken
    /\ refreshToken = a.refreshToken
    /\ tokenExpiry = (IF a = NoAuth THEN Null ELSE ExpiryOf(a))

\* part_004: new CavosWallet(..., accessToken?, refreshToken?, tokenExpiry?)
ConstructMemory(acc, ref, exp) ==
    /\ accessToken = (IF Falsy(acc) THEN Null ELSE acc)
    /\ refreshToken = (IF Falsy(ref) THEN Null ELSE ref)
    /\ tokenExpiry = (IF Falsy(exp) THEN Null ELSE exp)

\* part_006: new CavosWallet(address, network, email, hashedPk, orgToken)
ConstructLegacy ==
    /\ accessToken = Null
    /\ refreshToken = Null
    /\ tokenExpiry = Null

\* The object as constructed.  Token pair 1 is the one the last login
\* issued; the host application passes all, some or none of it.  The secure
\* store is empty, or holds the same AuthData, or (when the object is built
\* without tokens, to be hydrated from the store) holds what an earlier run
\* of the application stored, by now past its expiry threshold.
Init ==
    /\ variant \in Variants
    /\ identity = [address |-> "0x1", network |-> "sepolia",
                   email |-> "a@b.com", user_id |-> "u1", org_id |-> "org1",
                   orgSecret |-> "org-secret"]
    /\ CASE variant = "secure" ->
              /\ \E a \in {NoAuth, AuthData(1, T0)} :
                    /\ ConstructSecure(a)
                    /\ store \in {NoAuth, AuthData(1, T0)}
                                \cup (IF a = NoAuth
                                      THEN {AuthData(1, T0 - Life)} ELSE {})
         [] variant = "memory" ->
              /\ \E acc \in {Null, 1}, ref \in {Null, 1},
                    exp \in {Null, ExpiryOf(AuthData(1, T0))} :
                    ConstructMemory(acc, ref, exp)
              /\ store = NoAuth
         [] OTHER ->
              /\ ConstructLegacy
              /\ store = NoAuth
    /\ now = T0
    /\ srvValid = {1}
    /\ srvUsed = {}
    /\ nextTok = 2
    /\ reuseSent = FALSE
    /\ call = [p \in Procs |-> IdleCall]
    /\ login = NoLogin
    /\ ser = NoSer
    /\ cb = NoCb
    /\ peer = NoPeer
    /\ trial = NoTrial

---------------------------------------------------------------------------
(* Token refresh, storage, logout *)

\* refreshAccessToken up to its fetch: FALSE when there is nothing to send.
RefreshSends == ~Falsy(refreshToken)

\* The answers of the refresh endpoint: a new pair; a 2xx body whose data
\* object lacks the token fields; a non-2xx status; a transport exception;
\* a 2xx body that is not JSON or has no data object.
RefreshOutcomes == {"ok", "empty", "http", "neterr", "badjson"}

\* response.ok
ResponseOk(resp) == resp.kind \in {"ok", "empty"}

\* The AuthData refreshAccessToken builds from a 2xx answer at instant t.
ResponseAuthData(resp, t) ==
    IF resp.kind = "ok" THEN AuthData(resp.pair, t)
    ELSE [NoAuth EXCEPT !.timestamp = t]

\* storeAuthData that sets the fields before it writes: a failed write
\* leaves the new tokens in memory.
StoreAuthData_SetFirst(a, ok) ==
    IF ok
    THEN store' = a /\ SetAuthData(a)
    ELSE UNCHANGED store /\ SetAuthData(a)

\* storeAuthData: the SecureStore write and, only after it, setAuthData.
\* The record is kept as the AuthData itself: JSON.stringify and JSON.parse
\* give back the strings and finite numbers they were given and leave a
\* missing field missing.
StoreAuthData(a, ok) ==
    IF ok
    THEN store' = a /\ SetAuthData(a)
    ELSE UNCHANGED store /\ KeepSession

\* part_004 refreshAccessToken and setAuthenticationData assign the fields.
AssignAuthData(a) ==
    /\ accessToken' = a.accessToken
    /\ refreshToken' = a.refreshToken
    /\ tokenExpiry' = Plus(a.timestamp, Times(a.expiresIn, 1000))
    /\ identity' = identity

\* logout of src/src/CavosWallet.ts once deleteItemAsync has settled.
LogoutEffect(ok) ==
    IF ok
    THEN /\ store' = NoAuth
         /\ accessToken' = Null
         /\ refreshToken' = Null
         /\ tokenExpiry' = Null
         /\ identity' = identity
    ELSE UNCHANGED store /\ KeepSession

\* The answers of the execute and swap endpoints: the documented body; a
\* non-2xx status; a transport exception; a body that is not JSON; a JSON
\* body without the object that holds the hash; that object without the
\* hash.
GatewayOutcomes == {"ok", "http", "neterr", "badjson", "nofield", "noleaf"}

\* The non-2xx statuses and the body texts the endpoints answer with.
HttpStatuses == {401, 500}
HttpBodies == {"boom", ""}

\* The responses of the execute and swap endpoints.
GatewayAnswers ==
    {GatewayResp(k, 200, "") : k \in GatewayOutcomes \ {"http", "neterr"}}
    \cup {GatewayResp("neterr", 0, "")}
    \cup {GatewayResp("http", st, b) : st \in HttpStatuses, b \in HttpBodies}

\* One response of each kind: the non-2xx one is 500 "boom".
AnswerOf(out) ==
    CASE out = "http" -> GatewayResp("http", 500, "boom")
      [] out = "neterr" -> GatewayResp("neterr", 0, "")
      [] OTHER -> GatewayResp(out, 200, "")

\* The error text with the body left out.
HttpErrorText_NoBody(st, b) ==
    "Error executing calls: " \o ToString(st)

\* `Error executing calls: ${res.status} ${errorText}`
HttpErrorText(st, b) ==
    "Error executing calls: " \o ToString(st) \o " " \o b

\* The swap of part_004 and part_006 that returns result.result whole.
ReturnsBody(v, o) == o = "swap" /\ v \in {"memory", "bio", "bioDirect"}

\* What execute / swap / executeCalls return for a gateway answer.
\* part_004's swap returns result.result whole; part_006's executeCalls
\* returns the parsed body and throws on everything else.
GatewayResult(v, o, ans) ==
    LET out == ans.kind IN
    CASE v = "legacy" ->
           IF out = "http" THEN Thrown(LegacyThrowMsg)
           ELSE IF out = "neterr" THEN Thrown(NetErrorMsg)
           ELSE IF out = "badjson" THEN Thrown(JsonErrorMsg)
           ELSE Value("json")
      [] out = "http" -> Err(HttpErrorText(ans.status, ans.body))
      [] out = "neterr" -> Err(NetErrorMsg)
      [] out = "badjson" -> Err(JsonErrorMsg)
      [] out = "ok" ->
           IF ReturnsBody(v, o) THEN Value("json") ELSE Value("hash")
      [] out = "nofield" ->
           IF ReturnsBody(v, o) THEN Value("undefined")
           ELSE Err(TypeErrorMsg)
      [] OTHER ->
           IF ReturnsBody(v, o) THEN Value("json")
           ELSE Value("undefined")

---------------------------------------------------------------------------
(* Actions *)

\* execute / swap / executeCalls from the call to the first await that
\* leaves the object: the refresh request or the gateway request.
StartWalletOp(p, o) ==
    /\ CanStart(p)
    /\ variant \in {"secure", "memory"}
    /\ o \in OpsOf(variant)
    /\ LET c == NewCall(o) IN
       IF IsTokenExpired
       THEN IF RefreshSends
            THEN /\ call' = [call EXCEPT ![p] =
                       [c EXCEPT !.pc = "refreshWait", !.sent = refreshToken,
                                 !.nRefresh = @ + 1]]
                 /\ reuseSent' = (reuseSent \/ refreshToken \in srvUsed)
            ELSE /\ call' = [call EXCEPT ![p] =
                       OnRefreshFailure(c, accessToken)]
                 /\ UNCHANGED reuseSent
       ELSE /\ call' = [call EXCEPT ![p] =
                  Dispatch(c, GetValidAccessToken(TRUE, accessToken))]
            /\ UNCHANGED reuseSent
    /\ KeepSession
    /\ UNCHANGED <<beside, variant, store, now, backend>>

\* The refresh endpoint answers.  It rotates: a valid refresh token is
\* exchanged once for a new pair, a token it does not hold valid is refused.
BackendRefresh(p) ==
    /\ call[p].pc = "refreshWait"
    /\ \E kind \in RefreshOutcomes :
         /\ kind = "ok" => (call[p].sent \in srvValid /\ nextTok <= MaxTok)
         /\ IF kind = "ok"
            THEN /\ srvValid' = (srvValid \ {call[p].sent}) \cup {nextTok}
                 /\ srvUsed' = srvUsed \cup {call[p].sent}
                 /\ nextTok' = nextTok + 1
                 /\ call' = [call EXCEPT ![p].pc = "refreshResp",
                               ![p].resp = RefreshResp("ok", nextTok)]
            ELSE /\ UNCHANGED backend
                 /\ call' = [call EXCEPT ![p].pc = "refreshResp",
                               ![p].resp = RefreshResp(kind, Null)]
    /\ KeepSession
    /\ UNCHANGED <<beside, variant, store, now, reuseSent>>

\* refreshAccessToken after `await fetch(...)`, up to the store write.
RefreshSettle(p) ==
    /\ call[p].pc = "refreshResp"
    /\ variant = "secure"
    /\ LET c == call[p] IN
       IF ResponseOk(c.resp)
       THEN call' = [call EXCEPT ![p] =
                [c EXCEPT !.pc = "storing", !.resp = NoResp,
                          !.pend = ResponseAuthData(c.resp, now)]]
       ELSE call' = [call EXCEPT ![p] = OnRefreshFailure(c, accessToken)]
    /\ KeepSession
    /\ UNCHANGED <<beside, variant, store, now, backend, reuseSent>>

\* part_004 refreshAccessToken after `await fetch(...)`, and the rest of the
\* operation up to its gateway request.
RefreshSettleMemory(p) ==
    /\ call[p].pc = "refreshResp"
    /\ variant = "memory"
    /\ LET c == call[p] IN
       IF ResponseOk(c.resp)
       THEN /\ AssignAuthData(ResponseAuthData(c.resp, now))
            /\ call' = [call EXCEPT ![p] =
                  Dispatch(c, GetValidAccessToken(TRUE, accessToken'))]
       ELSE /\ call' = [call EXCEPT ![p] = OnRefreshFailure(c, accessToken)]
            /\ KeepSession
    /\ UNCHANGED <<beside, variant, store, now, backend, reuseSent>>

\* storeAuthData after `await SecureStore.setItemAsync(...)`, and the rest
\* of its caller (refreshAccessToken or setAuthenticationData).
StoreSettle(p) ==
    /\ call[p].pc = "storing"
    /\ \E ok \in BOOLEAN :
         LET c == call[p] IN
         /\ StoreAuthData(c.pend, ok)
         /\ IF c.op = "setAuthenticationData"
            THEN call' = [call EXCEPT ![p] =
                     Finish(c, IF ok THEN Value("void")
                                     ELSE Thrown(StoreThrowMsg))]
            ELSE call' = [call EXCEPT ![p] =
                     IF ok
                     THEN Dispatch(c, GetValidAccessToken(TRUE, accessToken'))
                     ELSE OnRefreshFailure(c, accessToken')]
    /\ UNCHANGED <<beside, variant, now, backend, reuseSent>>

\* The execute or swap endpoint answers and the operation returns.
GatewaySettle(p) ==
    /\ call[p].pc = "gatewayWait"
    /\ \E out \in GatewayOutcomes :
         call' = [call EXCEPT ![p] =
             Finish(call[p],
                    GatewayResult(variant, call[p].op, AnswerOf(out)))]
    /\ KeepSession
    /\ UNCHANGED <<beside, variant, store, now, backend, reuseSent>>

\* part_006 executeCalls: no token step, the request goes out at once.
LegacyExecuteCalls(p) ==
    /\ CanStart(p)
    /\ variant = "legacy"
    /\ call' = [call EXCEPT ![p] =
           [NewCall("executeCalls") EXCEPT !.pc = "gatewayWait",
                                           !.nGateway = 1]]
    /\ KeepSession
    /\ UNCHANGED <<beside, variant, store, now, backend, reuseSent>>

\* A login completes: the backend issues the next token pair.
LoginIssues ==
    /\ nextTok <= MaxTok
    /\ srvValid' = srvValid \cup {nextTok}
    /\ nextTok' = nextTok + 1
    /\ UNCHANGED srvUsed

\* setAuthenticationData with the AuthData of a login just completed.
SetAuthenticationData(p) ==
    /\ CanStart(p)
    /\ variant = "secure"
    /\ LoginIssues
    /\ call' = [call EXCEPT ![p] =
           [NewCall("setAuthenticationData") EXCEPT
                !.pc = "storing", !.pend = AuthData(nextTok, now)]]
    /\ KeepSession
    /\ UNCHANGED <<beside, variant, store, now, reuseSent>>

\* part_004 setAuthenticationData.
SetAuthenticationDataMemory(p) ==
    /\ CanStart(p)
    /\ variant = "memory"
    /\ LoginIssues
    /\ AssignAuthData(AuthData(nextTok, now))
    /\ call' = [call EXCEPT ![p] =
           Finish(NewCall("setAuthenticationData"), Value("void"))]
    /\ UNCHANGED <<beside, variant, store, now, reuseSent>>

\* loadStoredAuthData up to `await SecureStore.getItemAsync(...)`.
LoadStoredAuthData(p) ==
    /\ CanStart(p)
    /\ variant = "secure"
    /\ call' = [call EXCEPT ![p] =
           [NewCall("loadStoredAuthData") EXCEPT !.pc = "loading"]]
    /\ KeepSession
    /\ UNCHANGED <<beside, variant, store, now, backend, reuseSent>>

\* part_004 loadStoredAuthData: not implemented, returns false.
LoadStoredAuthDataMemory(p) ==
    /\ CanStart(p)
    /\ variant = "memory"
    /\ call' = [call EXCEPT ![p] =
           Finish(NewCall("loadStoredAuthData"), Value("false"))]
    /\ KeepSession
    /\ UNCHANGED <<beside, variant, store, now, backend, reuseSent>>

\* isAuthenticated up to its await, if it reaches it.
IsAuthenticated(p) ==
    /\ CanStart(p)
    /\ variant = "secure"
    /\ call' = [call EXCEPT ![p] =
           IF Falsy(accessToken)
           THEN [NewCall("isAuthenticated") EXCEPT !.pc = "loading"]
           ELSE Finish(NewCall("isAuthenticated"),
                       IF IsTokenExpired THEN Value("false")
                                         ELSE Value("true"))]
    /\ KeepSession
    /\ UNCHANGED <<beside, variant, store, now, backend, reuseSent>>

\* part_004 isAuthenticated.
IsAuthenticatedMemory(p) ==
    /\ CanStart(p)
    /\ variant = "memory"
    /\ call' = [call EXCEPT ![p] =
           Finish(NewCall("isAuthenticated"),
                  IF Falsy(accessToken) THEN Value("false")
                  ELSE IF IsTokenExpired THEN Value("false")
                  ELSE Value("true"))]
    /\ KeepSession
    /\ UNCHANGED <<beside, variant, store, now, backend, reuseSent>>

\* loadStoredAuthData after `await SecureStore.getItemAsync(...)`; for
\* isAuthenticated its result is the result.
LoadSettle(p) ==
    /\ call[p].pc = "loading"
    /\ \E ok \in BOOLEAN :
         IF ok /\ store # NoAuth
         THEN /\ SetAuthData(store)
              /\ call' = [call EXCEPT ![p] = Finish(call[p], Value("true"))]
         ELSE /\ KeepSession
              /\ call' = [call EXCEPT ![p] = Finish(call[p], Value("false"))]
    /\ UNCHANGED <<beside, variant, store, now, backend, reuseSent>>

\* logout up to `await SecureStore.deleteItemAsync(...)`.
Logout(p) ==
    /\ CanStart(p)
    /\ variant = "secure"
    /\ call' = [call EXCEPT ![p] =
           [NewCall("logout") EXCEPT !.pc = "deleting"]]
    /\ KeepSession
    /\ UNCHANGED <<beside, variant, store, now, backend, reuseSent>>

\* part_004 logout: no await, the fields are cleared at once.
LogoutMemory(p) ==
    /\ CanStart(p)
    /\ variant = "memory"
    /\ accessToken' = Null
    /\ refreshToken' = Null
    /\ tokenExpiry' = Null
    /\ identity' = identity
    /\ call' = [call EXCEPT ![p] = Finish(NewCall("logout"), Value("void"))]
    /\ UNCHANGED <<beside, variant, store, now, backend, reuseSent>>

\* logout after `await SecureStore.deleteItemAsync(...)`.
LogoutSettle(p) ==
    /\ call[p].pc = "deleting"
    /\ \E ok \in BOOLEAN : LogoutEffect(ok)
    /\ call' = [call EXCEPT ![p] = Finish(call[p], Value("void"))]
    /\ UNCHANGED <<beside, variant, now, backend, reuseSent>>

\* Time passes.
Tick ==
    /\ \E t \in Instants : t > now /\ now' = t
    /\ KeepSession
    /\ UNCHANGED <<beside, variant, store, backend, reuseSent, call>>

Next ==
    \/ \E p \in Procs, o \in WalletOps : StartWalletOp(p, o)
    \/ \E p \in Procs : BackendRefresh(p)
    \/ \E p \in Procs : RefreshSettle(p)
    \/ \E p \in Procs : RefreshSettleMemory(p)
    \/ \E p \in Procs : StoreSettle(p)
    \/ \E p \in Procs : GatewaySettle(p)
    \/ \E p \in Procs : LegacyExecuteCalls(p)
    \/ \E p \in Procs : SetAuthenticationData(p)
    \/ \E p \in Procs : SetAuthenticationDataMemory(p)
    \/ \E p \in Procs : LoadStoredAuthData(p)
    \/ \E p \in Procs : LoadStoredAuthDataMemory(p)
    \/ \E p \in Procs : IsAuthenticated(p)
    \/ \E p \in Procs : IsAuthenticatedMemory(p)
    \/ \E p \in Procs : LoadSettle(p)
    \/ \E p \in Procs : Logout(p)
    \/ \E p \in Procs : LogoutMemory(p)
    \/ \E p \in Procs : LogoutSettle(p)
    \/ Tick

Spec == Init /\ [][Next]_vars

---------------------------------------------------------------------------
(* The wallet operations under every gateway response *)

\* A gateway step that answers a 401 by refreshing and sending the request
\* again.
GatewayAnswer_Retry(p) ==
    /\ call[p].pc = "gatewayWait"
    /\ \E ans \in GatewayAnswers :
         call' = [call EXCEPT ![p] =
             IF ans.kind = "http" /\ ans.status = 401 /\ call[p].nRefresh < 2
             THEN [call[p] EXCEPT !.pc = "refreshWait",
                                  !.sent = refreshToken,
                                  !.nRefresh = @ + 1]
             ELSE [Finish(call[p], GatewayResult(variant, call[p].op, ans))
                     EXCEPT !.resp = ans]]
    /\ KeepSession
    /\ UNCHANGED <<beside, variant, store, now, backend, reuseSent>>

\* GatewaySettle with the response drawn from every status and body text,
\* and kept on record with the result.
GatewayAnswer(p) ==
    /\ call[p].pc = "gatewayWait"
    /\ \E ans \in GatewayAnswers :
         call' = [call EXCEPT ![p] =
             [Finish(call[p], GatewayResult(variant, call[p].op, ans))
                 EXCEPT !.resp = ans]]
    /\ KeepSession
    /\ UNCHANGED <<beside, variant, store, now, backend, reuseSent>>

\* A session of a revision that refreshes, as constructed.
ExecInit == Init /\ variant \in {"secure", "memory"}

ExecNext ==
    \/ \E p \in Procs, o \in WalletOps : StartWalletOp(p, o)
    \/ \E p \in Procs : BackendRefresh(p)
    \/ \E p \in Procs : RefreshSettle(p)
    \/ \E p \in Procs : RefreshSettleMemory(p)
    \/ \E p \in Procs : StoreSettle(p)
    \/ \E p \in Procs : GatewayAnswer(p)
    \/ Tick

ExecSpec == ExecInit /\ [][ExecNext]_vars

---------------------------------------------------------------------------
(* The revisions with biometric confirmation *)

\* "bio"       part_004:30-360  every operation refreshes before its request
\* "bioDirect" part_006:77-367  the operations send their request at once
BioVariants == {"bio", "bioDirect"}

\* How requireBiometricAuth ends: the prompt succeeds; the device has no
\* biometric hardware; nothing is enrolled; the prompt fails or is
\* cancelled; a LocalAuthentication call rejects with an error that has no
\* message.
BioOutcomes == {"ok", "nohw", "notenrolled", "failed", "reject"}

\* requireBiometricAuth whose errors carry no message.
BioErrorOf_NoMessage(out) == ""

\* The message of what requireBiometricAuth throws.
BioErrorOf(out) ==
    CASE out \in {"nohw", "notenrolled"} -> NoBiometricMsg
      [] out = "failed" -> BiometricFailedMsg
      [] OTHER -> ""

\* `catch (err) { return { error: err.message || '...' } }` reached with a
\* request already counted.
OnBioFailure_AfterRequest(c, out) ==
    Finish([c EXCEPT !.bio = out, !.nGateway = 1],
           Err(IF BioErrorOf(out) = "" THEN BiometricRequiredMsg
               ELSE BioErrorOf(out)))

\* `catch (err) { return { error: err.message || 'Biometric
\* authentication required.' }; }`
OnBioFailure(c, out) ==
    Finish([c EXCEPT !.bio = out],
           Err(IF BioErrorOf(out) = "" THEN BiometricRequiredMsg
               ELSE BioErrorOf(out)))

\* An operation that makes no prompt at all.
PromptsDue_None(v, o, bioAuth) == 0

\* The prompts an operation makes: one when bioAuth is set, and in
\* part_004's executeCalls one more whether or not it is set.
PromptsDue(v, o, bioAuth) ==
    (IF bioAuth THEN 1 ELSE 0)
        + (IF v = "bio" /\ o = "executeCalls" THEN 1 ELSE 0)

\* The operation once its prompts are behind it: part_004 calls
\* refreshAccessToken(), which sends whatever refreshToken holds;
\* part_006 sends the request with the access token it holds.
AfterBio(p, c) ==
    IF variant = "bio"
    THEN /\ call' = [call EXCEPT ![p] =
                [c EXCEPT !.pc = "refreshWait", !.sent = refreshToken,
                          !.nRefresh = @ + 1]]
         /\ reuseSent' = (reuseSent \/ refreshToken \in srvUsed)
    ELSE /\ call' = [call EXCEPT ![p] =
                [c EXCEPT !.pc = "gatewayWait", !.sent = accessToken,
                          !.nGateway = @ + 1]]
         /\ UNCHANGED reuseSent

\* execute / executeCalls / swap with its bioAuth argument, up to its
\* first await.
StartBioOp(p, o, bioAuth) ==
    /\ CanStart(p)
    /\ variant \in BioVariants
    /\ LET c == [NewCall(o) EXCEPT !.bioAuth = bioAuth] IN
       IF PromptsDue(variant, o, bioAuth) > 0
       THEN /\ call' = [call EXCEPT ![p] = [c EXCEPT !.pc = "bioWait"]]
            /\ UNCHANGED reuseSent
       ELSE AfterBio(p, c)
    /\ KeepSession
    /\ UNCHANGED <<beside, variant, store, now, backend>>

\* requireBiometricAuth settles.
BioSettle(p) ==
    /\ call[p].pc = "bioWait"
    /\ \E out \in BioOutcomes :
         LET c == [call[p] EXCEPT !.nBio = @ + 1, !.bio = out] IN
         IF out # "ok"
         THEN /\ call' = [call EXCEPT ![p] = OnBioFailure(c, out)]
              /\ UNCHANGED reuseSent
         ELSE IF c.nBio < PromptsDue(variant, c.op, c.bioAuth)
         THEN /\ call' = [call EXCEPT ![p] = c]
              /\ UNCHANGED reuseSent
         ELSE AfterBio(p, c)
    /\ KeepSession
    /\ UNCHANGED <<beside, variant, store, now, backend>>

\* part_004:97-119 refreshAccessToken after `await fetch(...)`, and the
\* rest of the operation up to its request: the refresh result is the only
\* thing tested, the request carries whatever accessToken now holds.
RefreshSettleBio(p) ==
    /\ call[p].pc = "refreshResp"
    /\ variant = "bio"
    /\ LET c == call[p] IN
       IF ResponseOk(c.resp)
       THEN /\ accessToken' = c.resp.pair
            /\ refreshToken' = c.resp.pair
            /\ UNCHANGED <<tokenExpiry, identity>>
            /\ call' = [call EXCEPT ![p] =
                  [c EXCEPT !.pc = "gatewayWait", !.sent = c.resp.pair,
                            !.resp = NoResp, !.nGateway = @ + 1]]
       ELSE /\ KeepSession
            /\ call' = [call EXCEPT ![p] =
                  Finish([c EXCEPT !.refreshFailed = TRUE],
                         Err(AuthRequiredMsg))]
    /\ UNCHANGED <<beside, variant, store, now, backend, reuseSent>>

\* new CavosWallet(..., accessToken, refreshToken) of either revision,
\* given the token pair of the last login.
BioInit ==
    /\ variant \in BioVariants
    /\ identity = [address |-> "0x1", network |-> "sepolia",
                   email |-> "a@b.com", user_id |-> "u1", org_id |-> "org1",
                   orgSecret |-> "org-secret"]
    /\ accessToken = 1
    /\ refreshToken = 1
    /\ tokenExpiry = Null
    /\ store = NoAuth
    /\ now = T0
    /\ srvValid = {1}
    /\ srvUsed = {}
    /\ nextTok = 2
    /\ reuseSent = FALSE
    /\ call = [p \in Procs |-> IdleCall]
    /\ login = NoLogin
    /\ ser = NoSer
    /\ cb = NoCb
    /\ peer = NoPeer
    /\ trial = NoTrial

BioNext ==
    \/ \E p \in Procs, o \in WalletOps, b \in BOOLEAN : StartBioOp(p, o, b)
    \/ \E p \in Procs : BioSettle(p)
    \/ \E p \in Procs : BackendRefresh(p)
    \/ \E p \in Procs : RefreshSettleBio(p)
    \/ \E p \in Procs : GatewaySettle(p)

BioSpec == BioInit /\ [][BioNext]_vars

---------------------------------------------------------------------------
(* Serialization *)

\* The revisions of the class by their toJSON: src/src/CavosWallet.ts
\* ("secure"), part_004:729-741 ("memory"), part_004:349-359 ("bio"),
\* part_006:356-366 ("bioDirect"), part_006:670-680 ("auth0") and
\* part_006:48-54 ("legacy").
JsonRevisions == {"secure", "memory", "bio", "bioDirect", "auth0", "legacy"}

\* The keys of the object toJSON returns.
JsonKeys(rev) ==
    CASE rev = "secure" ->
           {"address", "network", "email", "user_id", "org_id"}
      [] rev = "memory" ->
           {"address", "network", "email", "user_id", "org_id",
            "orgSecret", "accessToken", "refreshToken", "tokenExpiry"}
      [] rev \in {"bio", "bioDirect", "auth0"} ->
           {"address", "network", "email", "user_id", "org_id",
            "orgSecret", "accessToken"}
      [] OTHER -> {"address", "network", "email"}

\* toJSON()
ToJSON(w) ==
    LET k == JsonKeys(w.revision) IN
    [keys |-> k,
     fields |->
       [revision |-> "none",
        address |-> IF "address" \in k THEN w.address ELSE "",
        network |-> IF "network" \in k THEN w.network ELSE "",
        email |-> IF "email" \in k THEN w.email ELSE "",
        user_id |-> IF "user_id" \in k THEN w.user_id ELSE "",
        org_id |-> IF "org_id" \in k THEN w.org_id ELSE "",
        orgSecret |-> IF "orgSecret" \in k THEN w.orgSecret ELSE "",
        accessToken |-> IF "accessToken" \in k THEN w.accessToken ELSE Null,
        refreshToken |->
            IF "refreshToken" \in k THEN w.refreshToken ELSE Null,
        tokenExpiry |->
            IF "tokenExpiry" \in k THEN w.tokenExpiry ELSE Null]]

\* The wallet objects of revision rev with the same public identity: they
\* differ in the organization secret and in the token fields.
SessionsOf(rev) ==
    {[revision |-> rev, address |-> "0x1", network |-> "sepolia",
      email |-> "a@b.com", user_id |-> "u1", org_id |-> "org1",
      orgSecret |-> sec, accessToken |-> acc, refreshToken |-> ref,
      tokenExpiry |-> exp] :
        sec \in {"org-secret", "other-secret"},
        acc \in {Null} \cup (1 .. MaxTok),
        ref \in {Null, 1},
        exp \in {Null, T0 + ExpiresIn * 1000}}

\* toJSON() is called on both objects.
ToJSONCall ==
    /\ ser.pc = "ready"
    /\ ser' = [ser EXCEPT !.pc = "done", !.outA = ToJSON(ser.a),
                          !.outB = ToJSON(ser.b)]
    /\ UNCHANGED <<wallet, login, cb, peer, trial>>

JsonInit ==
    /\ variant = "legacy"
    /\ identity = [address |-> "", network |-> "", email |-> "",
                   user_id |-> "", org_id |-> "", orgSecret |-> ""]
    /\ ConstructLegacy
    /\ store = NoAuth
    /\ now = T0
    /\ srvValid = {}
    /\ srvUsed = {}
    /\ nextTok = 1
    /\ reuseSent = FALSE
    /\ call = [p \in Procs |-> IdleCall]
    /\ login = NoLogin
    /\ cb = NoCb
    /\ peer = NoPeer
    /\ trial = NoTrial
    /\ \E rev \in JsonRevisions :
         \E a \in SessionsOf(rev), b \in SessionsOf(rev) :
            ser = Ser(a, b)

JsonNext == ToJSONCall

JsonSpec == JsonInit /\ [][JsonNext]_vars

---------------------------------------------------------------------------
(* Sign-in buttons *)

\* Login attempts made on one button.
MaxAttempts == 2

\* new CavosWallet(address, network, email, user_id, org_id, orgSecret,
\* authData) of src/src/CavosWallet.ts, given an authData object.
NewCavosWallet(address, network, email, user_id, org_id, orgSecret, a) ==
    [revision |-> "secure", address |-> address, network |-> network,
     email |-> email, user_id |-> user_id, org_id |-> org_id,
     orgSecret |-> orgSecret, accessToken |-> a.accessToken,
     refreshToken |-> a.refreshToken,
     tokenExpiry |-> Plus(a.timestamp, Times(a.expiresIn, 1000))]

\* new CavosWallet(address, network, email, user_id, org_id, orgSecret,
\* clientId, domain, accessToken) of part_006:396-680, the class the Google
\* button constructs: it keeps an access token and nothing else.
NewCavosWalletAuth0(address, network, email, uid, oid, orgSecret, acc) ==
    [revision |-> "auth0", address |-> address, network |-> network,
     email |-> email, user_id |-> uid, org_id |-> oid,
     orgSecret |-> orgSecret,
     accessToken |-> (IF Falsy(acc) THEN Null ELSE acc),
     refreshToken |-> Null, tokenExpiry |-> Null]

\* The exp claim, in seconds, inside access token k: every token of this
\* run is issued at T0 for ExpiresIn seconds.
JwtExpOf(k) == IF k = Null THEN Null ELSE (T0 \div 1000) + ExpiresIn

\* An access token by what the method can see of it: whether the field
\* holds one, whether `JSON.parse(atob(token.split('.')[1]...))` gives an
\* object, and the exp of that object, in seconds (Null when it has none).
NoToken == [present |-> FALSE, decodes |-> FALSE, exp |-> Null]
Opaque == [present |-> TRUE, decodes |-> FALSE, exp |-> Null]
Jwt(exp) == [present |-> TRUE, decodes |-> TRUE, exp |-> exp]

\* Access token k of the backend.
JwtOf(k) == IF Falsy(k) THEN NoToken ELSE Jwt(JwtExpOf(k))

\* isTokenExpired(): no token, an exception while decoding and a falsy exp
\* all give true; then part_004 answers false while Date.now() <= exp *
\* 1000, and part_006 answers false when exp < (getTime() + 1) / 1000.
IsTokenExpiredDecoded(rev, tok, t) ==
    IF ~tok.present THEN TRUE
    ELSE IF ~tok.decodes THEN TRUE
    ELSE IF Falsy(tok.exp) THEN TRUE
    ELSE IF rev = "auth0" THEN ~(tok.exp * 1000 < t + 1)
    ELSE ~(t <= tok.exp * 1000)

\* isTokenExpired of part_006:440-460 on access token acc: it answers
\* "not expired" when exp lies before (now + 1) / 1000.
IsTokenExpiredAuth0(acc, t) == IsTokenExpiredDecoded("auth0", JwtOf(acc), t)

\* isTokenExpired() of a wallet object held as a value.
SessionTokenExpired(w, t) ==
    IF w.revision = "auth0" THEN IsTokenExpiredAuth0(w.accessToken, t)
    ELSE IsTokenExpiredOf(w.accessToken, w.tokenExpiry, t)

\* `if (onError) { onError(e); }`
Deliver(l, e) ==
    IF l.onError = "absent" THEN l
    ELSE [l EXCEPT !.nError = @ + 1, !.errors = Append(@, e)]

\* A catch block that only logs.
CatchBlock_LogOnly(l, e) == l

\* The catch block of handleLogin: an exception of onError leaves
\* handleLogin.
CatchBlock(l, e) ==
    [Deliver(l, e) EXCEPT !.escaped = (l.onError = "throws")]

\* An onError call inside the try block: what it throws is caught by the
\* catch block.
ErrorBranch(l, e) ==
    IF l.onError = "throws" THEN CatchBlock(Deliver(l, e), HandlerThrowMsg)
    ELSE Deliver(l, e)

\* `if (onSuccess) { onSuccess(cavosWallet); }`
Succeed(l) ==
    IF l.onSuccess = "absent" THEN l ELSE [l EXCEPT !.nSuccess = @ + 1]

\* The branch of a callback URL whose user_data parses to the full payload.
SuccessBranch(l) ==
    LET u == l.payload IN
    CASE l.button = "apple" ->
           LET l1 == Succeed([l EXCEPT !.session =
                        NewCavosWallet(u.wallet.address, u.wallet.network,
                            u.email, u.user_id, u.org_id, OrgToken,
                            u.authData)])
           IN IF l.onSuccess = "throws"
              THEN CatchBlock(l1, HandlerThrowMsg) ELSE l1
      [] l.button = "google" ->
           LET l1 == Succeed([l EXCEPT !.session =
                        NewCavosWalletAuth0(u.wallet.address,
                            u.wallet.network, u.email, u.user_id, u.org_id,
                            OrgToken, u.authData.accessToken)])
           IN IF l.onSuccess = "throws"
              THEN ErrorBranch(l1, HandlerPayloadMsg) ELSE l1
      [] OTHER -> l

\* A handleLogin without the finally block: the flag stays set.
Finally_StillLoading(l, end) == [l EXCEPT !.pc = end]

\* `finally { setLoading(false); }`, and where the attempt has ended.
Finally(l, end) == [l EXCEPT !.loading = FALSE, !.pc = end]

\* The answers to the authorization-URL request: a JSON body with the url;
\* a non-2xx status; a 2xx body that is not JSON; a transport exception.
AuthUrlAnswers == {"ok", "http", "notjson", "neterr"}

\* What handleLogin throws for an answer other than "ok".
AuthUrlError(b, ans) ==
    CASE ans = "http" ->
           IF b = "google" THEN GoogleUrlHttpMsg ELSE AppleUrlHttpMsg
      [] ans = "notjson" ->
           IF b = "google" THEN BodyUsedMsg ELSE JsonErrorMsg
      [] OTHER -> NetErrorMsg

\* How openAuthSessionAsync settles: type "success" with a user_data that
\* is the full payload, is absent, is not JSON, or is JSON without the
\* wallet and authData objects; type "cancel"; another type; a rejection.
BrowserAnswers ==
    {"full", "nodata", "garbled", "partial", "cancel", "dismiss", "reject"}

ResultType(ans) ==
    CASE ans \in {"full", "nodata", "garbled", "partial"} -> "success"
      [] ans = "cancel" -> "cancel"
      [] ans = "dismiss" -> "dismiss"
      [] OTHER -> "none"

\* The else branch of `if (userDataStr)` that reports nothing.
NoDataBranch_Silent(l) == Finally(l, "Failed")

\* The else branch of `if (userDataStr)`.
NoDataBranch(l) == Finally(ErrorBranch(l, NoUserDataMsg), "Failed")

\* The cancel branch reporting what the last branch reports.
CancelBranch_AsFailed(l) == Finally(ErrorBranch(l, AuthFailedMsg), "Failed")

\* `else if (result.type === 'cancel')`
CancelBranch(l) == Finally(ErrorBranch(l, CancelledMsg), "Cancelled")

\* The last else: any other result type.
OtherBranch(l) == Finally(ErrorBranch(l, AuthFailedMsg), "Failed")

\* handleLogin after `await WebBrowser.openAuthSessionAsync(...)`.
HandleResult(l) ==
    CASE l.answer = "reject" ->
           Finally(CatchBlock(l, BrowserRejectMsg), "Failed")
      [] l.answer = "full" -> Finally(SuccessBranch(l), "Success")
      [] l.answer = "garbled" ->
           IF l.button = "google"
           THEN Finally(ErrorBranch(l, ParseUserDataMsg), "Failed")
           ELSE Finally(CatchBlock(l, JsonErrorMsg), "Failed")
      [] l.answer = "partial" ->
           CASE l.button = "google" ->
                  Finally(ErrorBranch(l, ParsePayloadMsg), "Failed")
             [] l.button = "apple" ->
                  Finally(CatchBlock(l, PayloadTypeErrorMsg), "Failed")
             [] OTHER -> Finally(l, "Success")
      [] l.answer = "nodata" -> NoDataBranch(l)
      [] l.answer = "cancel" -> CancelBranch(l)
      [] OTHER -> OtherBranch(l)

\* The button is pressed: handleLogin up to `await fetch(...)`.
Press ==
    /\ login.button \in Buttons
    /\ ~login.loading
    /\ login.attempts < MaxAttempts
    /\ login' = [NewLogin(login.button, login.onSuccess, login.onError)
                   EXCEPT !.pc = "RequestingAuthUrl", !.loading = TRUE,
                          !.attempts = login.attempts + 1]
    /\ UNCHANGED <<wallet, ser, cb, peer, trial>>

\* handleLogin after `await fetch(...)` up to openAuthSessionAsync.
AuthUrlSettle ==
    /\ login.pc = "RequestingAuthUrl"
    /\ \E ans \in AuthUrlAnswers :
         LET l == [login EXCEPT !.answer = ans] IN
         login' = IF ans = "ok"
                  THEN [l EXCEPT !.pc = "AwaitingBrowserResult",
                                 !.opened = TRUE]
                  ELSE Finally(CatchBlock(l, AuthUrlError(l.button, ans)),
                               "Failed")
    /\ UNCHANGED <<wallet, ser, cb, peer, trial>>

\* The browser session resolves and handleLogin runs to its end.  A login
\* that completes has had the backend issue a token pair.
BrowserSettle ==
    /\ login.pc = "AwaitingBrowserResult"
    /\ \E ans \in BrowserAnswers :
         /\ IF ans = "full" THEN LoginIssues
                            ELSE UNCHANGED <<srvValid, srvUsed, nextTok>>
         /\ login' = HandleResult(
                [login EXCEPT !.answer = ans,
                              !.payload = IF ans = "full"
                                          THEN Payload(nextTok, now)
                                          ELSE NoPayload])
    /\ UNCHANGED <<variant, identity, accessToken, refreshToken,
                   tokenExpiry, store, now, reuseSent, call, ser, cb,
                   peer, trial>>

\* A button as mounted by the host application; no wallet object exists
\* until a login succeeds.
LoginInit ==
    /\ variant = "legacy"
    /\ identity = [address |-> "", network |-> "", email |-> "",
                   user_id |-> "", org_id |-> "", orgSecret |-> ""]
    /\ ConstructLegacy
    /\ store = NoAuth
    /\ now = T0
    /\ srvValid = {}
    /\ srvUsed = {}
    /\ nextTok = 1
    /\ reuseSent = FALSE
    /\ call = [p \in Procs |-> IdleCall]
    /\ \E b \in Buttons :
         \E s \in HandlersOf(b), e \in HandlersOf(b) :
            login = NewLogin(b, s, e)
    /\ ser = NoSer
    /\ cb = NoCb
    /\ peer = NoPeer
    /\ trial = NoTrial

LoginNext ==
    \/ Press
    \/ AuthUrlSettle
    \/ BrowserSettle

LoginSpec == LoginInit /\ [][LoginNext]_vars

---------------------------------------------------------------------------
(* The callback URL *)

\* Text is a sequence of characters.  undefined is the one value below that
\* is not text.
Undefined == <<"undefined">>

RedirectUri == <<"a", "p", "p", ":", "/", "/", "c", "b">>
UserDataName == <<"u", "s", "e", "r", "_", "d", "a", "t", "a">>

\* The longest member value drawn character by character.
MaxLen == 3

\* The characters member values are drawn from.  JSON.stringify writes each
\* of them as itself.
ValueChars == {"x", "2", "5", "%", "@", "+"}

HexDigits ==
    {"0", "1", "2", "3", "4", "5", "6", "7", "8", "9", "A", "B", "C", "D",
     "E", "F", "a", "b", "c", "d", "e", "f"}

\* Characters encodeURIComponent leaves alone, among those that occur.
Unreserved ==
    {"x", "a", "b", "c", "d", "e", "i", "l", "m", "o", "s", "u", "0", "1",
     "2", "5", ".", "_", "R", "U"}

\* encodeURIComponent of one character.
EncodeChar(c) ==
    CASE c \in Unreserved -> <<c>>
      [] c = "%" -> <<"%", "2", "5">>
      [] c = "@" -> <<"%", "4", "0">>
      [] c = "+" -> <<"%", "2", "B">>
      [] c = " " -> <<"%", "2", "0">>
      [] c = "{" -> <<"%", "7", "B">>
      [] c = "}" -> <<"%", "7", "D">>
      [] c = ":" -> <<"%", "3", "A">>
      [] c = "=" -> <<"%", "3", "D">>
      [] c = "&" -> <<"%", "2", "6">>
      [] c = "\"" -> <<"%", "2", "2">>

\* The character a percent escape stands for.
ByteChar(h1, h2) ==
    CASE <<h1, h2>> = <<"2", "5">> -> "%"
      [] <<h1, h2>> = <<"4", "0">> -> "@"
      [] <<h1, h2>> \in {<<"2", "B">>, <<"2", "b">>} -> "+"
      [] <<h1, h2>> = <<"2", "0">> -> " "
      [] <<h1, h2>> \in {<<"7", "B">>, <<"7", "b">>} -> "{"
      [] <<h1, h2>> \in {<<"7", "D">>, <<"7", "d">>} -> "}"
      [] <<h1, h2>> \in {<<"3", "A">>, <<"3", "a">>} -> ":"
      [] <<h1, h2>> \in {<<"3", "D">>, <<"3", "d">>} -> "="
      [] <<h1, h2>> = <<"2", "6">> -> "&"
      [] <<h1, h2>> = <<"2", "2">> -> "\""
      [] <<h1, h2>> = <<"5", "2">> -> "R"
      [] <<h1, h2>> = <<"5", "5">> -> "U"
      [] OTHER -> "other"

RECURSIVE EncodeURIComponent(_)
EncodeURIComponent(s) ==
    IF s = <<>> THEN <<>>
    ELSE EncodeChar(Head(s)) \o EncodeURIComponent(Tail(s))

\* A percent escape starts at the head of s.
EscapeAtHead(s) ==
    /\ Len(s) >= 3
    /\ s[1] = "%"
    /\ s[2] \in HexDigits
    /\ s[3] \in HexDigits

\* Percent-decoding that leaves alone a "%" no escape follows (what
\* URLSearchParams does).
RECURSIVE PercentDecode(_)
PercentDecode(s) ==
    IF s = <<>> THEN <<>>
    ELSE IF EscapeAtHead(s)
    THEN <<ByteChar(s[2], s[3])>> \o PercentDecode(SubSeq(s, 4, Len(s)))
    ELSE <<Head(s)>> \o PercentDecode(Tail(s))

\* decodeURIComponent throws URIError on s.
Malformed(s) ==
    \E i \in 1 .. Len(s) :
        s[i] = "%" /\ ~EscapeAtHead(SubSeq(s, i, Len(s)))

\* JSON.stringify of the payload {email: v}.
JsonPre == <<"{", "\"", "e", "m", "a", "i", "l", "\"", ":", "\"">>
JsonPost == <<"\"", "}">>
JSONStringify(v) == JsonPre \o v \o JsonPost

\* The text JSON.parse reads as a payload {email: v}.
IsPayloadJson(t) ==
    /\ Len(t) >= Len(JsonPre) + Len(JsonPost)
    /\ SubSeq(t, 1, Len(JsonPre)) = JsonPre
    /\ SubSeq(t, Len(t) - Len(JsonPost) + 1, Len(t)) = JsonPost
    /\ \A i \in (Len(JsonPre) + 1) .. (Len(t) - Len(JsonPost)) :
          t[i] # "\""

\* The email member of such a text.
EmailOf(t) == SubSeq(t, Len(JsonPre) + 1, Len(t) - Len(JsonPost))

\* s.includes(c)
Includes(s, c) == \E i \in 1 .. Len(s) : s[i] = c

\* s.split(c)
RECURSIVE Split(_, _)
Split(s, c) ==
    IF ~Includes(s, c) THEN <<s>>
    ELSE LET i == CHOOSE i \in 1 .. Len(s) :
                     s[i] = c /\ \A j \in 1 .. (i - 1) : s[j] # c
         IN <<SubSeq(s, 1, i - 1)>> \o Split(SubSeq(s, i + 1, Len(s)), c)

\* s.split(c)[n], counting from 0.
Piece(s, c, n) ==
    IF n + 1 <= Len(Split(s, c)) THEN Split(s, c)[n + 1] ELSE Undefined

\* One name=value piece of a parameter string as URLSearchParams reads it:
\* cut at the first "=", "+" read as a space, both halves percent-decoded.
FormDecode(s) ==
    PercentDecode([i \in 1 .. Len(s) |-> IF s[i] = "+" THEN " " ELSE s[i]])

PairOf(piece) ==
    IF Includes(piece, "=")
    THEN LET name == Piece(piece, "=", 0)
         IN <<FormDecode(name),
              FormDecode(SubSeq(piece, Len(name) + 2, Len(piece)))>>
    ELSE <<FormDecode(piece), <<>>>>

\* new URLSearchParams(x): the name/value pairs in order.
URLSearchParams(x) ==
    IF x = Undefined THEN <<>>
    ELSE LET pieces == SelectSeq(Split(x, "&"), LAMBDA q : q # <<>>)
         IN [i \in 1 .. Len(pieces) |-> PairOf(pieces[i])]

\* params.get(name): the first value under the name, or null.
ParamsGet(params, name) ==
    IF \E i \in 1 .. Len(params) : params[i][1] = name
    THEN params[CHOOSE i \in 1 .. Len(params) :
                  /\ params[i][1] = name
                  /\ \A j \in 1 .. (i - 1) : params[j][1] # name][2]
    ELSE Undefined

\* The string handed to URLSearchParams.  The Apple buttons take what
\* follows the first "?"; the Google button takes the query part and
\* appends the fragment.
ParamsString(b, url) ==
    IF b # "google" THEN Piece(url, "?", 1)
    ELSE LET q == IF Includes(url, "?")
                  THEN Piece(Piece(url, "?", 1), "#", 0) ELSE <<>>
             amp == IF Includes(url, "#") /\ Len(q) > 0
                    THEN <<"&">> ELSE <<>>
             f == IF Includes(url, "#") THEN Piece(url, "#", 1) ELSE <<>>
         IN q \o amp \o f

NoOut == [kind |-> "none", email |-> <<>>]

\* JSON.parse(decodeURIComponent(userDataStr))
ParseUserData(str) ==
    IF Malformed(str) THEN [kind |-> "URIError", email |-> <<>>]
    ELSE IF IsPayloadJson(PercentDecode(str))
    THEN [kind |-> "payload", email |-> EmailOf(PercentDecode(str))]
    ELSE [kind |-> "SyntaxError", email |-> <<>>]

\* What handleLogin makes of result.url: the payload, a thrown error, or
\* no user_data.
ReadCallback(b, url) ==
    LET userDataStr ==
            ParamsGet(URLSearchParams(ParamsString(b, url)), UserDataName)
    IN IF userDataStr = Undefined \/ userDataStr = <<>>
       THEN [kind |-> "nodata", email |-> <<>>]
       ELSE ParseUserData(userDataStr)

\* user_data=<URI-encoded JSON of the payload {email: v}>
UserDataParam(v) ==
    UserDataName \o <<"=">> \o EncodeURIComponent(JSONStringify(v))

\* The callback URL the backend redirects to: the redirect URI, then the
\* query (q, or none), then the fragment (f, or none).
CallbackUrl(q, f) ==
    RedirectUri \o (IF q = Undefined THEN <<>> ELSE <<"?">> \o q)
                \o (IF f = Undefined THEN <<>> ELSE <<"#">> \o f)

\* Another parameter the backend may send along.
StateParam == <<"s", "=", "1">>

\* The member values: every text of up to MaxLen of the characters, and the
\* email of the documented example.
RECURSIVE TextsOf(_)
TextsOf(n) ==
    IF n = 0 THEN {<<>>}
    ELSE TextsOf(n - 1)
           \cup {<<c>> \o t : c \in ValueChars,
                              t \in {u \in TextsOf(n - 1) : Len(u) = n - 1}}

ExampleEmail == <<"a", "@", "b", ".", "c", "o", "m">>

Emails == (TextsOf(MaxLen) \ {<<>>}) \cup {ExampleEmail}

\* A parameter string carrying the payload, alone or after another
\* parameter.
Carrying(v) == {UserDataParam(v), StateParam \o <<"&">> \o UserDataParam(v)}

\* A callback to be read by button b: the payload sent in the query
\* (inQuery) and in the fragment (inFragment), Undefined where none is.
Cb(b, vq, q, vf, f) ==
    [pc |-> "ready", button |-> b, inQuery |-> vq, inFragment |-> vf,
     url |-> CallbackUrl(q, f), out |-> NoOut]

\* handleLogin reads the URL the browser session resolved with.
ReadCallbackUrl ==
    /\ cb.pc = "ready"
    /\ cb' = [cb EXCEPT !.pc = "done",
                        !.out = ReadCallback(cb.button, cb.url)]
    /\ UNCHANGED <<wallet, login, ser, peer, trial>>

\* The callbacks: user_data in the query, in the fragment, in both (with
\* different payloads), or in neither.
CallbackInit ==
    /\ variant = "legacy"
    /\ identity = [address |-> "", network |-> "", email |-> "",
                   user_id |-> "", org_id |-> "", orgSecret |-> ""]
    /\ ConstructLegacy
    /\ store = NoAuth
    /\ now = T0
    /\ srvValid = {}
    /\ srvUsed = {}
    /\ nextTok = 1
    /\ reuseSent = FALSE
    /\ call = [p \in Procs |-> IdleCall]
    /\ login = NoLogin
    /\ ser = NoSer
    /\ peer = NoPeer
    /\ trial = NoTrial
    /\ \E b \in Buttons :
         \/ \E v \in Emails : \E q \in Carrying(v) :
               cb = Cb(b, v, q, Undefined, Undefined)
         \/ \E v \in {<<"x">>, <<"2">>} : \E f \in Carrying(v) :
               \/ cb = Cb(b, Undefined, Undefined, v, f)
               \/ cb = Cb(b, Undefined, StateParam, v, f)
               \/ \E w \in {<<"x">>, <<"2">>} \ {v} :
                     cb = Cb(b, w, UserDataParam(w), v, f)
         \/ cb = Cb(b, Undefined, Undefined, Undefined, Undefined)
         \/ cb = Cb(b, Undefined, StateParam, Undefined, StateParam)

CallbackNext == ReadCallbackUrl

CallbackSpec == CallbackInit /\ [][CallbackNext]_vars

---------------------------------------------------------------------------
(* Two wallet objects in one application *)

\* A second object of src/src/CavosWallet.ts, built without authData: its
\* token fields, the position of the one call it has under way, the
\* AuthData that call is writing, what the call returned, and the access
\* tokens its own logins were issued.
NewPeer ==
    [pc |-> "idle", op |-> "none", accessToken |-> Null,
     refreshToken |-> Null, tokenExpiry |-> Null, pend |-> NoAuth,
     result |-> NoResult, own |-> {}]

PeerCanStart == peer.pc \in {"idle", "done"}

PeerFinish(r) == [peer EXCEPT !.pc = "done", !.result = r, !.pend = NoAuth]

\* setAuthData on the second object.
PeerSetAuthData(w, a) ==
    [w EXCEPT !.accessToken = a.accessToken,
              !.refreshToken = a.refreshToken,
              !.tokenExpiry = Plus(a.timestamp, Times(a.expiresIn, 1000))]

\* setAuthenticationData with the AuthData of a login of its own, up to
\* `await SecureStore.setItemAsync(CavosWallet.STORAGE_KEY, ...)`.
PeerSetAuthenticationData ==
    /\ PeerCanStart
    /\ LoginIssues
    /\ peer' = [peer EXCEPT !.pc = "storing",
                            !.op = "setAuthenticationData",
                            !.pend = AuthData(nextTok, now),
                            !.result = NoResult,
                            !.own = @ \cup {nextTok}]
    /\ KeepSession
    /\ UNCHANGED <<login, ser, cb, trial, variant, store, now, reuseSent,
                   call>>

\* storeAuthData after the write: the one item of the class is replaced.
PeerStoreSettle ==
    /\ peer.pc = "storing"
    /\ \E ok \in BOOLEAN :
         IF ok
         THEN /\ store' = peer.pend
              /\ peer' = PeerSetAuthData(PeerFinish(Value("void")),
                                         peer.pend)
         ELSE /\ UNCHANGED store
              /\ peer' = PeerFinish(Thrown(StoreThrowMsg))
    /\ KeepSession
    /\ UNCHANGED <<login, ser, cb, trial, variant, now, backend, reuseSent,
                   call>>

\* loadStoredAuthData, or isAuthenticated when no token is held, up to
\* `await SecureStore.getItemAsync(CavosWallet.STORAGE_KEY)`.
PeerLoadStoredAuthData ==
    /\ PeerCanStart
    /\ \E o \in {"loadStoredAuthData", "isAuthenticated"} :
         /\ (o = "isAuthenticated" => Falsy(peer.accessToken))
         /\ peer' = [peer EXCEPT !.pc = "loading", !.op = o,
                                 !.result = NoResult]
    /\ KeepSession
    /\ UNCHANGED <<login, ser, cb, trial, variant, store, now, backend,
                   reuseSent, call>>

\* loadStoredAuthData after the read.
PeerLoadSettle ==
    /\ peer.pc = "loading"
    /\ \E ok \in BOOLEAN :
         peer' = IF ok /\ store # NoAuth
                 THEN PeerSetAuthData(PeerFinish(Value("true")), store)
                 ELSE PeerFinish(Value("false"))
    /\ KeepSession
    /\ UNCHANGED <<login, ser, cb, trial, variant, store, now, backend,
                   reuseSent, call>>

\* logout up to `await SecureStore.deleteItemAsync(CavosWallet.STORAGE_KEY)`.
PeerLogout ==
    /\ PeerCanStart
    /\ peer' = [peer EXCEPT !.pc = "deleting", !.op = "logout",
                            !.result = NoResult]
    /\ KeepSession
    /\ UNCHANGED <<login, ser, cb, trial, variant, store, now, backend,
                   reuseSent, call>>

\* logout after the delete.
PeerLogoutSettle ==
    /\ peer.pc = "deleting"
    /\ \E ok \in BOOLEAN :
         IF ok
         THEN /\ store' = NoAuth
              /\ peer' = [PeerFinish(Value("void")) EXCEPT
                              !.accessToken = Null, !.refreshToken = Null,
                              !.tokenExpiry = Null]
         ELSE /\ UNCHANGED store
              /\ peer' = PeerFinish(Value("void"))
    /\ KeepSession
    /\ UNCHANGED <<login, ser, cb, trial, variant, now, backend, reuseSent,
                   call>>

\* Two objects of src/src/CavosWallet.ts as constructed: the first as in
\* Init, the second without tokens.  The store is empty or holds what the
\* first was given.
TwoInit ==
    /\ variant = "secure"
    /\ identity = [address |-> "0x1", network |-> "sepolia",
                   email |-> "a@b.com", user_id |-> "u1", org_id |-> "org1",
                   orgSecret |-> "org-secret"]
    /\ \E a \in {NoAuth, AuthData(1, T0)} :
          /\ ConstructSecure(a)
          /\ store \in {NoAuth, a}
    /\ now = T0
    /\ srvValid = {1}
    /\ srvUsed = {}
    /\ nextTok = 2
    /\ reuseSent = FALSE
    /\ call = [p \in Procs |-> IdleCall]
    /\ login = NoLogin
    /\ ser = NoSer
    /\ cb = NoCb
    /\ peer = NewPeer
    /\ trial = NoTrial

\* The first object runs one call at a time.
TwoNext ==
    \/ \E o \in WalletOps : StartWalletOp(1, o)
    \/ BackendRefresh(1)
    \/ RefreshSettle(1)
    \/ StoreSettle(1)
    \/ GatewaySettle(1)
    \/ SetAuthenticationData(1)
    \/ LoadStoredAuthData(1)
    \/ IsAuthenticated(1)
    \/ LoadSettle(1)
    \/ Logout(1)
    \/ LogoutSettle(1)
    \/ PeerSetAuthenticationData
    \/ PeerStoreSettle
    \/ PeerLoadStoredAuthData
    \/ PeerLoadSettle
    \/ PeerLogout
    \/ PeerLogoutSettle
    \/ Tick

TwoSpec == TwoInit /\ [][TwoNext]_vars

---------------------------------------------------------------------------
(* The secure-store revision, one call after another *)

SequentialInit == Init /\ variant = "secure"

SequentialNext ==
    \/ \E o \in WalletOps : StartWalletOp(1, o)
    \/ BackendRefresh(1)
    \/ RefreshSettle(1)
    \/ StoreSettle(1)
    \/ GatewaySettle(1)
    \/ SetAuthenticationData(1)
    \/ LoadStoredAuthData(1)
    \/ IsAuthenticated(1)
    \/ LoadSettle(1)
    \/ Logout(1)
    \/ LogoutSettle(1)
    \/ Tick

SequentialSpec == SequentialInit /\ [][SequentialNext]_vars

---------------------------------------------------------------------------
(* Token validity by revision *)

\* isTokenExpired of part_004:69-89: the token is decoded, and it is not
\* expired while Date.now() <= exp * 1000.
IsTokenExpiredJwt(acc, t) == IsTokenExpiredDecoded("bio", JwtOf(acc), t)

\* isTokenExpired() of the object as it stands.
IsTokenExpiredNow ==
    IF variant \in BioVariants THEN IsTokenExpiredJwt(accessToken, now)
    ELSE IsTokenExpired

\* Call p sends its refresh request in this step.
SendsRefresh(p) ==
    call'[p].pc = "refreshWait" /\ call[p].pc # "refreshWait"

\* Call p sends its gateway request in this step.
SendsGateway(p) ==
    call'[p].pc = "gatewayWait" /\ call[p].pc # "gatewayWait"

---------------------------------------------------------------------------
(* execute and executeCalls side by side *)

\* The revisions that have both methods and a step before the request:
\* part_004:409-742, part_004:30-360 and part_006:77-367.
PairVariants == {"memory", "bio", "bioDirect"}

\* One method call on its own copy of the session: the token fields, the
\* external calls made so far, and what the method returned (if it has).
NewRun(acc, ref, exp) ==
    [accessToken |-> acc, refreshToken |-> ref, tokenExpiry |-> exp,
     trace |-> <<>>, result |-> NoResult]

Returned(r) == r.result # NoResult

\* The external calls a method makes: the biometric prompt, the refresh
\* request (part_004:471-483 sends the organization secret with it,
\* part_004:99-107 does not) and the request to the execute endpoint with
\* its Authorization header and the calls of its body.
BiometricCall ==
    [to |-> "biometric", orgAuth |-> FALSE, token |-> Null, calls |-> <<>>]
RefreshCall(v, ref) ==
    [to |-> "refresh", orgAuth |-> (v = "memory"), token |-> ref,
     calls |-> <<>>]
ExecuteCall(token, calls) ==
    [to |-> "execute", orgAuth |-> FALSE, token |-> token, calls |-> calls]

\* { contractAddress, entrypoint, calldata }
CallEntry(c, e, d) ==
    [contractAddress |-> c, entrypoint |-> e, calldata |-> d]

\* What the outside answers during one call: each biometric prompt in
\* turn, the refresh endpoint, the execute endpoint.
Scripts ==
    [bio : {<<a, b>> : a \in BioOutcomes, b \in BioOutcomes},
     refresh : {RefreshResp(k, IF k = "ok" THEN 2 ELSE Null) :
                   k \in RefreshOutcomes},
     gateway : {AnswerOf(out) : out \in GatewayOutcomes}]

\* `try { await this.requireBiometricAuth(); } catch (err) { return
\* { error: err.message || 'Biometric authentication required.' }; }`
RequireBiometricAuth(r, s) ==
    LET out == s.bio[Len(r.trace) + 1]
        r1 == [r EXCEPT !.trace = Append(@, BiometricCall)]
    IN IF out = "ok" THEN r1
       ELSE [r1 EXCEPT !.result = OnBioFailure(IdleCall, out).result]

\* refreshAccessToken of part_004:465-506 ("memory") and of part_004:97-119
\* ("bio"): the run after it, and whether it returned true.
RefreshAccessToken(v, r, t, s) ==
    LET r1 == [r EXCEPT !.trace = Append(@, RefreshCall(v, r.refreshToken))]
    IN CASE v = "memory" ->
              IF Falsy(r.refreshToken) THEN [run |-> r, ok |-> FALSE]
              ELSE IF ResponseOk(s.refresh)
              THEN [run |-> PeerSetAuthData(r1,
                                ResponseAuthData(s.refresh, t)),
                    ok |-> TRUE]
              ELSE [run |-> r1, ok |-> FALSE]
         [] OTHER ->
              IF ResponseOk(s.refresh)
              THEN [run |-> [r1 EXCEPT !.accessToken = s.refresh.pair,
                                       !.refreshToken = s.refresh.pair],
                    ok |-> TRUE]
              ELSE [run |-> r1, ok |-> FALSE]

\* The lines between the prompts and the request.  part_004:580-584 asks
\* getValidAccessToken for the token; part_004:182-185 calls
\* refreshAccessToken and tests what it returned; part_006:198-242 has no
\* such lines.
TokenStep(v, r, t, s) ==
    CASE v = "memory" ->
           LET f == IF IsTokenExpiredOf(r.accessToken, r.tokenExpiry, t)
                    THEN RefreshAccessToken(v, r, t, s)
                    ELSE [run |-> r, ok |-> TRUE]
           IN IF Falsy(GetValidAccessToken(f.ok, f.run.accessToken))
              THEN [f.run EXCEPT !.result = Err(AuthRequiredMsg)]
              ELSE f.run
      [] v = "bio" ->
           LET f == RefreshAccessToken(v, r, t, s)
           IN IF ~f.ok THEN [f.run EXCEPT !.result = Err(AuthRequiredMsg)]
              ELSE f.run
      [] OTHER -> r

\* The request to the execute endpoint and what the method returns for its
\* answer.
RequestStep(v, o, r, calls, s) ==
    [r EXCEPT !.trace = Append(@, ExecuteCall(r.accessToken, calls)),
              !.result = GatewayResult(v, o, s.gateway)]

\* execute(contractAddress, entryPoint, calldata, bioAuth)
Execute(v, r, t, c, e, d, bioAuth, s) ==
    LET r1 == IF v \in BioVariants /\ bioAuth
              THEN RequireBiometricAuth(r, s) ELSE r
        r2 == IF Returned(r1) THEN r1 ELSE TokenStep(v, r1, t, s)
    IN IF Returned(r2) THEN r2
       ELSE RequestStep(v, "execute", r2, <<CallEntry(c, e, d)>>, s)

\* executeCalls(calls, bioAuth); part_004:239-243 prompts once more
\* whatever bioAuth is.
ExecuteCalls(v, r, t, calls, bioAuth, s) ==
    LET r1 == IF v \in BioVariants /\ bioAuth
              THEN RequireBiometricAuth(r, s) ELSE r
        r2 == IF v = "bio" /\ ~Returned(r1)
              THEN RequireBiometricAuth(r1, s) ELSE r1
        r3 == IF Returned(r2) THEN r2 ELSE TokenStep(v, r2, t, s)
    IN IF Returned(r3) THEN r3
       ELSE RequestStep(v, "executeCalls", r3, calls, s)

\* Both methods are given the same call, the same bioAuth and the same
\* answers, each on a copy of the session as it stands.
NewPair(b, s) ==
    [pc |-> "ready", bioAuth |-> b, script |-> s,
     one |-> NewRun(Null, Null, Null), list |-> NewRun(Null, Null, Null)]

ExecuteBoth ==
    /\ trial.pc = "ready"
    /\ LET r == NewRun(accessToken, refreshToken, tokenExpiry) IN
       trial' = [trial EXCEPT
           !.pc = "done",
           !.one = Execute(variant, r, now, "0xc", "transfer", <<"1">>,
                           trial.bioAuth, trial.script),
           !.list = ExecuteCalls(variant, r, now,
                        <<CallEntry("0xc", "transfer", <<"1">>)>>,
                        trial.bioAuth, trial.script)]
    /\ UNCHANGED <<wallet, login, ser, cb, peer>>

\* A session of one of the three revisions as constructed (the memory
\* revision as in Init, the others as in BioInit).  The memory revision
\* takes no bioAuth argument.
PairInit ==
    /\ variant \in PairVariants
    /\ identity = [address |-> "0x1", network |-> "sepolia",
                   email |-> "a@b.com", user_id |-> "u1", org_id |-> "org1",
                   orgSecret |-> "org-secret"]
    /\ IF variant = "memory"
       THEN \E acc \in {Null, 1}, ref \in {Null, 1},
               exp \in {Null, ExpiryOf(AuthData(1, T0))} :
               ConstructMemory(acc, ref, exp)
       ELSE accessToken = 1 /\ refreshToken = 1 /\ tokenExpiry = Null
    /\ store = NoAuth
    /\ now = T0
    /\ srvValid = {1}
    /\ srvUsed = {}
    /\ nextTok = 2
    /\ reuseSent = FALSE
    /\ call = [p \in Procs |-> IdleCall]
    /\ login = NoLogin
    /\ ser = NoSer
    /\ cb = NoCb
    /\ peer = NoPeer
    /\ \E b \in BOOLEAN, s \in Scripts :
         /\ variant = "memory" => ~b
         /\ trial = NewPair(b, s)

PairNext ==
    \/ ExecuteBoth
    \/ Tick

PairSpec == PairInit /\ [][PairNext]_vars

---------------------------------------------------------------------------
(* isTokenExpired of the revisions that decode the token *)

\* part_004:69-89 ("bio") and part_006:440-460 ("auth0").
JwtVariants == {"bio", "auth0"}

\* The second in which the clock stands at T0.
ExpAtT0 == T0 \div 1000

\* The tokens tried: none, one that does not decode, one without exp, and
\* tokens whose exp is 0 or lies around ExpAtT0.
TokensTried ==
    {NoToken, Opaque, Jwt(Null)}
        \cup {Jwt(e) : e \in {0, ExpAtT0 - 1, ExpAtT0, ExpAtT0 + 1}}

\* The instants tried, in ms.
JwtInstants ==
    {ExpAtT0 * 1000 + d : d \in {0 - 1000, 0 - 1, 0, 1, 1000}}

NewCheck(rev, tok) ==
    [pc |-> "ready", rev |-> rev, token |-> tok, result |-> NoResult]

\* isTokenExpired() is called on an object holding trial.token.
IsTokenExpiredCall ==
    /\ trial.pc = "ready"
    /\ trial' = [trial EXCEPT
           !.pc = "done",
           !.result = IF IsTokenExpiredDecoded(trial.rev, trial.token, now)
                      THEN Value("true") ELSE Value("false")]
    /\ UNCHANGED <<wallet, login, ser, cb, peer>>

JwtInit ==
    /\ variant = "legacy"
    /\ identity = [address |-> "", network |-> "", email |-> "",
                   user_id |-> "", org_id |-> "", orgSecret |-> ""]
    /\ ConstructLegacy
    /\ store = NoAuth
    /\ now \in JwtInstants
    /\ srvValid = {}
    /\ srvUsed = {}
    /\ nextTok = 1
    /\ reuseSent = FALSE
    /\ call = [p \in Procs |-> IdleCall]
    /\ login = NoLogin
    /\ ser = NoSer
    /\ cb = NoCb
    /\ peer = NoPeer
    /\ \E rev \in JwtVariants, tok \in TokensTried :
         trial = NewCheck(rev, tok)

JwtNext == IsTokenExpiredCall

JwtSpec == JwtInit /\ [][JwtNext]_vars

---------------------------------------------------------------------------
(* The revision that asks the backend about its token *)

\* The answers of /auth/token/check: a body reporting the token valid, or
\* expired, or used, or not valid; a non-2xx status; a transport
\* exception; a body that is not JSON.
TokenCheckAnswers ==
    {"valid", "expired", "used", "invalid", "http", "neterr", "badjson"}

\* What the promise of part_006:111-128 isTokenExpired resolves to:
\* `data.expired || data.used || !data.valid`, and true on every failure.
IsTokenExpiredChecked(ans) == ans # "valid"

\* part_006:183-188 isAuthenticated.  isTokenExpired is async: the call
\* sends the check request and hands back a promise, and `!` of a promise
\* is false, so the method returns false while the request is under way.
IsAuthenticatedChecked(p) ==
    /\ CanStart(p)
    /\ variant = "bioDirect"
    /\ call' = [call EXCEPT ![p] =
           IF Falsy(accessToken)
           THEN Finish(NewCall("isAuthenticated"), Value("false"))
           ELSE [Finish(NewCall("isAuthenticated"), Value("false"))
                    EXCEPT !.sent = accessToken]]
    /\ KeepSession
    /\ UNCHANGED <<beside, variant, store, now, backend, reuseSent>>

\* The check endpoint answers; the promise settles and nothing reads it.
TokenCheckSettle(p) ==
    /\ call[p].pc = "done"
    /\ call[p].op = "isAuthenticated"
    /\ call[p].sent # Null
    /\ call[p].resp = NoResp
    /\ \E ans \in TokenCheckAnswers :
         call' = [call EXCEPT ![p].resp = [NoResp EXCEPT !.kind = ans]]
    /\ KeepSession
    /\ UNCHANGED <<beside, variant, store, now, backend, reuseSent>>

\* new CavosWallet(..., accessToken, refreshToken) of part_006:87-105,
\* given the token pair of the last login or none.
CheckedInit ==
    /\ variant = "bioDirect"
    /\ identity = [address |-> "0x1", network |-> "sepolia",
                   email |-> "a@b.com", user_id |-> "u1", org_id |-> "org1",
                   orgSecret |-> "org-secret"]
    /\ \E k \in {Null, 1} : accessToken = k /\ refreshToken = k
    /\ tokenExpiry = Null
    /\ store = NoAuth
    /\ now = T0
    /\ srvValid = {1}
    /\ srvUsed = {}
    /\ nextTok = 2
    /\ reuseSent = FALSE
    /\ call = [p \in Procs |-> IdleCall]
    /\ login = NoLogin
    /\ ser = NoSer
    /\ cb = NoCb
    /\ peer = NoPeer
    /\ trial = NoTrial

CheckedNext ==
    \/ \E p \in Procs : IsAuthenticatedChecked(p)
    \/ \E p \in Procs : TokenCheckSettle(p)
    \/ \E p \in Procs, o \in WalletOps, b \in BOOLEAN : StartBioOp(p, o, b)
    \/ \E p \in Procs : BioSettle(p)
    \/ \E p \in Procs : GatewaySettle(p)

CheckedSpec == CheckedInit /\ [][CheckedNext]_vars

---------------------------------------------------------------------------
(* The secure-store revision with two calls at once *)

\* The clock stands still: whether a call refreshes is decided by the
\* tokens the session is built with or loads (the record of an earlier run
\* is past its threshold).
StoreInit == Init /\ variant = "secure"

StoreNext ==
    \/ \E p \in Procs, o \in WalletOps : StartWalletOp(p, o)
    \/ \E p \in Procs : BackendRefresh(p)
    \/ \E p \in Procs : RefreshSettle(p)
    \/ \E p \in Procs : StoreSettle(p)
    \/ \E p \in Procs : GatewaySettle(p)
    \/ \E p \in Procs : SetAuthenticationData(p)
    \/ \E p \in Procs : LoadStoredAuthData(p)
    \/ \E p \in Procs : IsAuthenticated(p)
    \/ \E p \in Procs : LoadSettle(p)
    \/ \E p \in Procs : Logout(p)
    \/ \E p \in Procs : LogoutSettle(p)

StoreSpec == StoreInit /\ [][StoreNext]_vars

\* The token fields of the session; the token fields setAuthData derives
\* from a record.
InMemory ==
    [accessToken |-> accessToken, refreshToken |-> refreshToken,
     tokenExpiry |-> tokenExpiry]
DerivedFrom(a) ==
    [accessToken |-> a.accessToken, refreshToken |-> a.refreshToken,
     tokenExpiry |-> ExpiryOf(a)]

---------------------------------------------------------------------------
(* Every await resumes *)

\* The application holds a wallet object of a revision that refreshes, or
\* shows a sign-in button.
LiveInit ==
    \/ Init /\ variant \in {"secure", "memory"}
    \/ LoginInit

LiveNext ==
    \/ \E p \in Procs, o \in WalletOps : StartWalletOp(p, o)
    \/ \E p \in Procs : BackendRefresh(p)
    \/ \E p \in Procs : RefreshSettle(p)
    \/ \E p \in Procs : RefreshSettleMemory(p)
    \/ \E p \in Procs : StoreSettle(p)
    \/ \E p \in Procs : GatewaySettle(p)
    \/ \E p \in Procs : SetAuthenticationData(p)
    \/ \E p \in Procs : SetAuthenticationDataMemory(p)
    \/ \E p \in Procs : LoadStoredAuthData(p)
    \/ \E p \in Procs : LoadStoredAuthDataMemory(p)
    \/ \E p \in Procs : IsAuthenticated(p)
    \/ \E p \in Procs : IsAuthenticatedMemory(p)
    \/ \E p \in Procs : LoadSettle(p)
    \/ \E p \in Procs : Logout(p)
    \/ \E p \in Procs : LogoutMemory(p)
    \/ \E p \in Procs : LogoutSettle(p)
    \/ Press
    \/ login.button \in Buttons /\ AuthUrlSettle
    \/ login.button \in Buttons /\ BrowserSettle

\* Every external call settles: each awaited fetch, SecureStore call and
\* browser session resolves or rejects, and the code after the await runs.
Settles ==
    /\ \A p \in Procs :
          /\ WF_vars(BackendRefresh(p))
          /\ WF_vars(RefreshSettle(p))
          /\ WF_vars(RefreshSettleMemory(p))
          /\ WF_vars(StoreSettle(p))
          /\ WF_vars(GatewaySettle(p))
          /\ WF_vars(LoadSettle(p))
          /\ WF_vars(LogoutSettle(p))
    /\ WF_vars(login.button \in Buttons /\ AuthUrlSettle)
    /\ WF_vars(login.button \in Buttons /\ BrowserSettle)

LiveSpec == LiveInit /\ [][LiveNext]_vars /\ Settles

---------------------------------------------------------------------------
(* Properties *)

\* Call p returns from operation o in this step.
Returns(p, o) ==
    /\ call'[p] # call[p]
    /\ call'[p].pc = "done"
    /\ call'[p].op = o

\* Call p has a refresh under way: from its request to the return of
\* refreshAccessToken.
Refreshing(p) ==
    \/ call[p].pc \in {"refreshWait", "refreshResp"}
    \/ call[p].pc = "storing" /\ call[p].op \in WalletOps

\* C1: two wallet operations running at once on a session whose token is
\* expired make one refresh request between them: while one call's refresh
\* is under way no other call has one of its own.
C1_SingleRefreshInFlight ==
    \A p, q \in Procs : p # q => ~(Refreshing(p) /\ Refreshing(q))

\* C2: a refresh token the backend has accepted in a successful exchange is
\* never sent to the refresh endpoint again.
C2_NoRefreshTokenReuse == ~reuseSent

\* C3: isTokenExpired() is true exactly when the access token is absent, or
\* the expiry is absent, or now >= expiry - 300000 ms; it is true for
\* expiry = now + 299999 and false for expiry = now + 300001.
C3_IsTokenExpiredRule ==
    /\ IsTokenExpired <=>
         (accessToken = Null \/ tokenExpiry = Null
            \/ now >= tokenExpiry - 300000)
    /\ (accessToken # Null /\ tokenExpiry = now + 299999) => IsTokenExpired
    /\ (accessToken # Null /\ tokenExpiry = now + 300001) => ~IsTokenExpired

\* A token is held and expires 299999 ms from now.
C3_Witness ==
    /\ accessToken # Null
    /\ tokenExpiry = now + 299999
    /\ IsTokenExpired

\* C4 (that no failure is thrown): a finished execute / executeCalls / swap
\* of any revision has returned a value; it has not thrown past the
\* operation.
C4_NeverThrows ==
    \A p \in Procs :
        (call[p].pc = "done" /\ call[p].op \in WalletOps)
            => call[p].result.kind # "throw"

\* C5: when the refresh of a wallet operation fails (nothing to send, a
\* refusal, an exception, a failed write of the new tokens), the operation
\* returns the authentication-required error and has sent nothing to the
\* execute or swap endpoint.
C5_RefreshFailureShortCircuits ==
    \A p \in Procs :
        (call[p].op \in WalletOps /\ call[p].refreshFailed)
            => /\ call[p].pc = "done"
               /\ call[p].result = Err(AuthRequiredMsg)
               /\ call[p].nGateway = 0

\* A swap whose refresh request was sent and failed.
C5_Witness ==
    \E p \in Procs :
        /\ call[p].op = "swap"
        /\ call[p].refreshFailed
        /\ call[p].nRefresh = 1
        /\ call[p].result = Err(AuthRequiredMsg)

\* C6: one wallet operation contacts the refresh endpoint at most once, and
\* a call whose refresh failed ends with the authentication-required error.
C6_AtMostOneRefreshPerCall ==
    \A p \in Procs :
        /\ call[p].nRefresh <= 1
        /\ (call[p].nRefresh = 1 /\ call[p].refreshFailed)
              => call[p].result.msg = AuthRequiredMsg

\* An execute that made its one refresh request, saw it fail, and returned.
C6_Witness ==
    \E p \in Procs :
        /\ call[p].op = "execute"
        /\ call[p].pc = "done"
        /\ call[p].nRefresh = 1
        /\ call[p].refreshFailed

\* C7: isAuthenticated() returns true exactly when, as it returns, an
\* access token is held (in memory, or just loaded from the store) and
\* now < expiry - 5 minutes.
C7_IsAuthenticatedRule ==
    [][\A p \in Procs :
          Returns(p, "isAuthenticated") =>
             ((call'[p].result = Value("true")) <=>
                (/\ accessToken' # Null
                 /\ tokenExpiry' # Null
                 /\ now' < tokenExpiry' - 300000))]_vars

\* C8: the access token and the expiry are both present or both absent.
C8_TokenAndExpiryTogether ==
    (accessToken = Null) <=> (tokenExpiry = Null)

\* C9: no step changes address, network, email, user_id, org_id or
\* orgSecret.
C9_IdentityImmutable == [][identity' = identity]_vars

\* A refresh has replaced the tokens the session was built with, and the
\* identity is still not the one the refresh response carried.
C9_Witness ==
    /\ accessToken \notin {Null, 1}
    /\ \E p \in Procs : call[p].nRefresh = 1 /\ ~call[p].refreshFailed
                           /\ call[p].pc \in {"gatewayWait", "done"}
    /\ identity.user_id # AuthData(1, T0).user_id

\* C10 (the in-memory part): when logout() returns, accessToken,
\* refreshToken and the expiry are absent, whether or not the delete of the
\* persisted record succeeded.
C10_LogoutClears ==
    [][\A p \in Procs :
          Returns(p, "logout") =>
             /\ accessToken' = Null
             /\ refreshToken' = Null
             /\ tokenExpiry' = Null]_vars

---------------------------------------------------------------------------
(* Properties of the sign-in buttons *)

\* The attempt has ended.
Ended == login.pc \in {"Success", "Cancelled", "Failed"}

\* C11: when the browser session resolves with type "success" and the
\* callback URL has no user_data parameter, the attempt ends in Failed, the
\* success callback is not invoked, and the error callback the host
\* supplied is invoked with "No user data received".
C11_NoUserDataFails ==
    login.answer = "nodata" =>
        /\ login.pc = "Failed"
        /\ login.nSuccess = 0
        /\ login.session = NoSession
        /\ login.onError # "absent" =>
              (login.nError >= 1 /\ login.errors[1] = NoUserDataMsg)

C11_Witness ==
    /\ login.answer = "nodata"
    /\ ResultType(login.answer) = "success"
    /\ login.pc = "Failed"
    /\ login.onError = "returns"
    /\ login.errors = <<NoUserDataMsg>>

\* C12: a login attempt that has ended in Cancelled or Failed has invoked
\* the error callback: on a button given an onError, and on the revision
\* of the button that accepts none.
C12_EveryFailureReported ==
    (/\ Ended
     /\ login.pc # "Success"
     /\ (login.button = "appleBare" \/ login.onError # "absent"))
        => login.nError >= 1

\* C13: a browser result of type "cancel" ends the attempt in Cancelled
\* with "Authentication cancelled" handed to the error callback; a result
\* of another type than "success" and "cancel" ends it in Failed with
\* "Authentication failed"; in both cases the success callback is not
\* invoked and no wallet object is constructed.
C13_CancelAndOtherResults ==
    /\ login.answer = "cancel" =>
          /\ login.pc = "Cancelled"
          /\ login.nSuccess = 0
          /\ login.session = NoSession
          /\ login.onError # "absent" =>
                (login.nError >= 1 /\ login.errors[1] = CancelledMsg)
    /\ login.answer = "dismiss" =>
          /\ login.pc = "Failed"
          /\ login.nSuccess = 0
          /\ login.session = NoSession
          /\ login.onError # "absent" =>
                (login.nError >= 1 /\ login.errors[1] = AuthFailedMsg)

C13_Witness ==
    /\ login.answer = "cancel"
    /\ login.pc = "Cancelled"
    /\ login.onError = "returns"
    /\ login.errors = <<CancelledMsg>>
    /\ login.attempts = 2

\* C14: an attempt that has ended, on a button given both callbacks, has
\* invoked exactly one of the success callback and the error callback, and
\* that one exactly once.
C14_ExactlyOneCallback ==
    (Ended /\ login.onSuccess # "absent" /\ login.onError # "absent")
        => login.nSuccess + login.nError = 1

\* C15: when the authorization-URL request is answered with a non-2xx
\* status or with a body that is not JSON, the attempt ends in Failed, the
\* browser session has not been opened, and the error callback the host
\* supplied has received the error.
C15_AuthUrlFailure ==
    login.answer \in {"http", "notjson"} =>
        /\ login.pc = "Failed"
        /\ ~login.opened
        /\ login.nSuccess = 0
        /\ login.onError # "absent" =>
              /\ login.nError >= 1
              /\ login.errors[1] \in {AppleUrlHttpMsg, GoogleUrlHttpMsg,
                                      JsonErrorMsg, BodyUsedMsg}

C15_Witness ==
    /\ login.answer = "http"
    /\ login.pc = "Failed"
    /\ login.button = "apple"
    /\ login.onError = "returns"
    /\ login.errors = <<AppleUrlHttpMsg>>
    /\ ~login.opened

\* C19: whenever the success callback has been invoked, the wallet object
\* it was given has its address and network from the payload's wallet
\* object, its identity fields from the payload, and its token state from
\* the payload's authData (access token, refresh token, expiry = timestamp
\* + expiresIn * 1000), and its token passes the validity check at once.
C19_SessionFromPayload ==
    login.nSuccess >= 1 =>
        LET u == login.payload
            w == login.session
        IN /\ w.address = u.wallet.address
           /\ w.network = u.wallet.network
           /\ w.email = u.email
           /\ w.user_id = u.user_id
           /\ w.org_id = u.org_id
           /\ w.accessToken = u.authData.accessToken
           /\ w.refreshToken = u.authData.refreshToken
           /\ w.tokenExpiry =
                 u.authData.timestamp + u.authData.expiresIn * 1000
           /\ ~SessionTokenExpired(w, now)

---------------------------------------------------------------------------
(* Properties of the wallet operations under every gateway response *)

\* C16: when the execute endpoint answers with a non-2xx status S and body
\* text B, execute returns {error: "Error executing calls: S B"} (500 and
\* "boom" give "Error executing calls: 500 boom"), and the step that
\* returns it leaves accessToken, refreshToken and the expiry as they were.
C16_ExecuteHttpError ==
    [][\A p \in Procs :
          (Returns(p, "execute") /\ call'[p].resp.kind = "http") =>
             /\ call'[p].result.kind = "error"
             /\ call'[p].result.msg =
                   "Error executing calls: "
                      \o ToString(call'[p].resp.status) \o " "
                      \o call'[p].resp.body
             /\ (call'[p].resp.status = 500 /\ call'[p].resp.body = "boom")
                   => call'[p].result.msg = HttpErrorMsg
             /\ UNCHANGED <<accessToken, refreshToken, tokenExpiry>>]_vars

C16_Witness ==
    \E p \in Procs :
        /\ call[p].pc = "done"
        /\ call[p].op = "execute"
        /\ call[p].resp = GatewayResp("http", 500, "boom")
        /\ call[p].result = Err(HttpErrorMsg)
        /\ accessToken # Null

---------------------------------------------------------------------------
(* Properties of the revisions with biometric confirmation *)

\* C17: an execute called with bioAuth = true on a device that reports no
\* biometric hardware or nothing enrolled returns {error: "No biometric
\* authentication available"} and has sent no request: no refresh and no
\* execute request (execute makes no token-check request in any revision).
C17_NoBiometricNoRequest ==
    \A p \in Procs :
        (/\ call[p].pc = "done"
         /\ call[p].op = "execute"
         /\ call[p].bioAuth
         /\ call[p].bio \in {"nohw", "notenrolled"})
            => /\ call[p].result = Err(NoBiometricMsg)
               /\ call[p].nRefresh = 0
               /\ call[p].nGateway = 0

C17_Witness ==
    \E p \in Procs :
        /\ variant = "bio"
        /\ call[p].pc = "done"
        /\ call[p].op = "execute"
        /\ call[p].bioAuth
        /\ call[p].bio = "notenrolled"
        /\ call[p].result = Err(NoBiometricMsg)
        /\ call[p].nRefresh + call[p].nGateway = 0

\* C18 as stated: a wallet operation called with bioAuth = true whose
\* biometric confirmation does not succeed (no hardware, nothing enrolled,
\* prompt failed or cancelled) returns {error: "Biometric authentication
\* required."} and has made no network call.
C18_BiometricRequiredMessage ==
    \A p \in Procs :
        (/\ call[p].pc = "done"
         /\ call[p].op \in WalletOps
         /\ call[p].bioAuth
         /\ call[p].bio \in {"nohw", "notenrolled", "failed"})
            => /\ call[p].result = Err(BiometricRequiredMsg)
               /\ call[p].nRefresh = 0
               /\ call[p].nGateway = 0

\* C18 amended: such an operation returns an {error} whose text is the
\* message of what requireBiometricAuth threw ("No biometric
\* authentication available" without hardware or enrolment, "Biometric
\* authentication failed" for a failed or cancelled prompt) and
\* "Biometric authentication required." only when that error has no
\* message; in every case no network call has been made.
C18_BiometricFailureShortCircuits ==
    \A p \in Procs :
        (/\ call[p].pc = "done"
         /\ call[p].op \in WalletOps
         /\ call[p].bioAuth
         /\ call[p].bio \in {"nohw", "notenrolled", "failed", "reject"})
            => /\ call[p].result.kind = "error"
               /\ call[p].bio \in {"nohw", "notenrolled"}
                     => call[p].result.msg = NoBiometricMsg
               /\ call[p].bio = "failed"
                     => call[p].result.msg = BiometricFailedMsg
               /\ call[p].bio = "reject"
                     => call[p].result.msg = BiometricRequiredMsg
               /\ call[p].nRefresh = 0
               /\ call[p].nGateway = 0

C18_Witness ==
    \E p \in Procs :
        /\ call[p].pc = "done"
        /\ call[p].op = "swap"
        /\ call[p].bioAuth
        /\ call[p].bio = "failed"
        /\ call[p].result = Err(BiometricFailedMsg)
        /\ call[p].nGateway = 0

---------------------------------------------------------------------------
(* Properties of serialization *)

\* C20: what toJSON() returns holds neither the organization secret nor a
\* token field, so for two wallet objects with the same address, network,
\* email, user_id and org_id it returns equal values whatever their
\* orgSecret, accessToken, refreshToken and expiry are.
C20_ToJSONHidesSecrets ==
    (/\ ser.pc = "done"
     /\ ser.a.address = ser.b.address
     /\ ser.a.network = ser.b.network
     /\ ser.a.email = ser.b.email
     /\ ser.a.user_id = ser.b.user_id
     /\ ser.a.org_id = ser.b.org_id)
        => /\ ser.outA = ser.outB
           /\ ser.outA.keys \cap {"orgSecret", "accessToken",
                                  "refreshToken", "tokenExpiry"} = {}

\* C21: reading the callback URL <finalRedirectUri>?user_data=<URI-encoded
\* JSON of P> gives back P, for every payload P.
C21_CallbackRoundTrip ==
    (/\ cb.pc = "done"
     /\ cb.inQuery # Undefined
     /\ cb.url = CallbackUrl(UserDataParam(cb.inQuery), Undefined))
        => cb.out = [kind |-> "payload", email |-> cb.inQuery]

\* C30: user_data is looked up in the query string and then in the
\* fragment: it is found when either part carries it, and the query's value
\* is used when both do.  (Payloads without "%", which the round trip
\* preserves.)
C30_QueryThenFragment ==
    (/\ cb.pc = "done"
     /\ cb.inQuery # Undefined => ~Includes(cb.inQuery, "%"))
        => cb.out =
             IF cb.inQuery # Undefined
             THEN [kind |-> "payload", email |-> cb.inQuery]
             ELSE IF cb.inFragment # Undefined
             THEN [kind |-> "payload", email |-> cb.inFragment]
             ELSE [kind |-> "nodata", email |-> <<>>]

\* C22: each wallet object owns its TokenState.  With two objects in one
\* application, what one object obtains from loadStoredAuthData or
\* isAuthenticated is never a token issued to the other, and an object that
\* stored its tokens and has not logged out finds them when it loads.
C22_TokenStateOwned ==
    /\ (/\ call[1].pc = "done"
        /\ call[1].op \in {"loadStoredAuthData", "isAuthenticated"}
        /\ call[1].result = Value("true"))
          => accessToken \notin peer.own
    /\ (/\ peer.pc = "done"
        /\ peer.op \in {"loadStoredAuthData", "isAuthenticated"}
        /\ peer.result = Value("true"))
          => peer.accessToken \in peer.own

\* C23: a wallet operation sends a refresh request only if isTokenExpired()
\* is true when its token step starts; with a token that is present and
\* more than 5 minutes from expiry no refresh request is sent.
C23_RefreshOnlyIfExpired ==
    [][\A p \in Procs : SendsRefresh(p) => IsTokenExpiredNow]_vars

\* C24: the steps of one call come in the order biometric gate, token
\* step, gateway request.  A call that has sent a refresh or a gateway
\* request has its biometric gate behind it (the prompt was made if bioAuth
\* was passed, and every prompt made succeeded); in the revision with a
\* token step, a call that has sent its gateway request has sent its
\* refresh request before and seen it succeed.
C24_PreflightOrder ==
    \A p \in Procs :
        LET c == call[p] IN
        /\ (c.nRefresh > 0 \/ c.nGateway > 0) =>
              /\ c.bioAuth => c.nBio >= 1
              /\ c.nBio > 0 => c.bio = "ok"
        /\ (variant = "bio" /\ c.nGateway > 0) =>
              /\ c.nRefresh = 1
              /\ ~c.refreshFailed
              /\ c.pc \in {"gatewayWait", "done"}

\* C24 witness: an operation called with bioAuth has passed its prompt,
\* refreshed, sent its gateway request and returned the answer.
C24_Witness ==
    \E p \in Procs :
        /\ variant = "bio"
        /\ call[p].op = "swap"
        /\ call[p].bioAuth
        /\ call[p].nBio = 1
        /\ call[p].nRefresh = 1
        /\ call[p].nGateway = 1
        /\ call[p].pc = "done"
        /\ call[p].result.kind = "json"

\* C26: the access token a gateway request carries is the one that passed
\* the token step of the same call.  It is never absent; when the call
\* refreshed it is the access token that refresh returned; when the call
\* did not refresh it is the token held, which isTokenExpired() accepts.
C26_DispatchesValidatedToken ==
    [][\A p \in Procs :
          SendsGateway(p) =>
            /\ ~Falsy(call'[p].sent)
            /\ call[p].pc = "refreshResp" =>
                  call'[p].sent = call[p].resp.pair
            /\ call[p].pc = "storing" =>
                  call'[p].sent = call[p].pend.accessToken
            /\ call'[p].nRefresh = 0 =>
                  call'[p].sent = accessToken /\ ~IsTokenExpiredNow]_vars

\* C25: a wallet operation prompts for biometrics at most once, and only
\* when bioAuth was passed: without it there is no prompt and the call does
\* not end in a biometric error.
C25_BiometricOnlyOnRequest ==
    \A p \in Procs :
        /\ call[p].nBio <= 1
        /\ ~call[p].bioAuth =>
              /\ call[p].nBio = 0
              /\ call[p].pc # "bioWait"
              /\ call[p].result.msg \notin
                    {NoBiometricMsg, BiometricFailedMsg, BiometricRequiredMsg}

\* C27: when the refresh endpoint has answered a call with a new token
\* pair, the session holds that pair when the call's refresh step ends,
\* whether or not the write to the secure store succeeded.
C27_RotatedPairKept ==
    [][\A p \in Procs :
          /\ (/\ call[p].pc = "refreshResp"
              /\ call[p].resp.kind = "ok"
              /\ call'[p].pc \notin {"refreshResp", "storing"})
                => /\ accessToken' = call[p].resp.pair
                   /\ refreshToken' = call[p].resp.pair
          /\ (/\ call[p].pc = "storing"
              /\ call[p].op \in WalletOps
              /\ ~Falsy(call[p].pend.refreshToken)
              /\ call'[p].pc # "storing")
                => /\ accessToken' = call[p].pend.accessToken
                   /\ refreshToken' = call[p].pend.refreshToken]_vars

\* Call p's storeAuthData completes its write in this step.
Stores(p) ==
    /\ call[p].pc = "storing"
    /\ call'[p].pc # "storing"
    /\ store' = call[p].pend

\* Call p's loadStoredAuthData finds a record in this step.
Loads(p) ==
    /\ call[p].pc = "loading"
    /\ call'[p].result = Value("true")

\* C28 as stated: whenever an auth result is stored into the session, by
\* setAuthenticationData, loadStoredAuthData or a refresh, the expiry is the
\* instant of storing plus expiresIn * 1000 ms (for a write that takes
\* time, any instant from its start to its end).
C28_ExpiryFromStoreTime ==
    [][\A p \in Procs :
          /\ Stores(p) =>
                \E t \in call[p].pend.timestamp .. now :
                    tokenExpiry' = Plus(t, Times(call[p].pend.expiresIn, 1000))
          /\ Loads(p) =>
                tokenExpiry' = Plus(now, Times(store.expiresIn, 1000))]_vars

\* C28 amended: the expiry is the timestamp the auth result carries plus
\* expiresIn * 1000 ms.  A refresh stamps its result with the instant the
\* response is handled; construction, setAuthenticationData and
\* loadStoredAuthData take the timestamp of the record they are given.
C28_ExpiryFromTimestamp ==
    /\ ~Falsy(accessToken) => tokenExpiry = ExpiryOf(AuthData(1, T0))
    /\ [][\A p \in Procs :
             /\ Stores(p) =>
                   tokenExpiry' = Plus(call[p].pend.timestamp,
                                       Times(call[p].pend.expiresIn, 1000))
             /\ Loads(p) =>
                   tokenExpiry' = Plus(store.timestamp,
                                       Times(store.expiresIn, 1000))
             /\ (call[p].pc = "refreshResp" /\ call'[p].pc = "storing") =>
                   call'[p].pend.timestamp = now]_vars

\* C28 witness: the record an earlier run of the application stored has
\* been loaded, and the expiry counts from the stamp of that record.
C28_Witness ==
    /\ call[1].pc = "done"
    /\ call[1].op = "loadStoredAuthData"
    /\ call[1].result = Value("true")
    /\ accessToken = 1
    /\ tokenExpiry = (T0 - Life) + ExpiresIn * 1000
    /\ tokenExpiry < now + ExpiresIn * 1000

\* C29: one call of execute, executeCalls or swap sends at most one gateway
\* request.  Once the request is out the call only waits and returns; a
\* non-2xx answer, a body that does not decode or a transport exception
\* ends it with one failure, with no second request and no refresh after
\* the first.
C29_OneGatewayRequest ==
    \A p \in Procs :
        LET c == call[p] IN
        /\ c.nGateway <= 1
        /\ c.nGateway = 1 => c.pc \in {"gatewayWait", "done"}
        /\ (c.pc = "done" /\ c.resp.kind \in {"http", "neterr", "badjson"}) =>
              /\ c.result.kind = "error"
              /\ c.nGateway = 1
              /\ c.nRefresh <= 1

\* C29 witness: an operation that refreshed and then got a 401 from the
\* gateway has returned that failure.
C29_Witness ==
    \E p \in Procs :
        /\ call[p].pc = "done"
        /\ call[p].op = "swap"
        /\ call[p].resp = GatewayResp("http", 401, "boom")
        /\ call[p].nRefresh = 1
        /\ call[p].nGateway = 1
        /\ call[p].result = Err(HttpErrorText(401, "boom"))

\* C31: execute(c, e, d) is the one-entry case of executeCalls: from the
\* same session state and with the same answers from outside, execute(c,
\* e, d) and executeCalls([{contractAddress: c, entrypoint: e, calldata:
\* d}]) make the same external calls in the same order (prompts, refresh
\* request, execute request with its header and calls), return the same
\* value and leave the same token fields.
C31_ExecuteIsOneEntryCase ==
    trial.pc = "done" => trial.one = trial.list

\* C32: in the revisions that decode the token, isTokenExpired() returns
\* true when the access token is missing, cannot be decoded, has no exp
\* claim, or has exp earlier than the current time, and returns false when
\* exp is later than the current time.
C32_DecodedExpiryRule ==
    trial.pc = "done" =>
        LET tok == trial.token IN
        /\ (\/ ~tok.present
            \/ ~tok.decodes
            \/ tok.exp = Null
            \/ tok.exp * 1000 < now) => trial.result = Value("true")
        /\ (tok.decodes /\ tok.exp # Null /\ tok.exp * 1000 > now)
              => trial.result = Value("false")

\* C33: in the revision that asks the backend, isAuthenticated() returns
\* true exactly when an access token is held and the token check reports
\* it valid, not expired and not used; it returns false otherwise.
C33_CheckedIsAuthenticated ==
    \A p \in Procs :
        (call[p].pc = "done" /\ call[p].op = "isAuthenticated") =>
            IF call[p].sent = Null
            THEN call[p].result = Value("false")
            ELSE call[p].resp # NoResp =>
                    ((call[p].result = Value("true"))
                        <=> ~IsTokenExpiredChecked(call[p].resp.kind))

\* The session holds no token and no record is persisted.
LoggedOut ==
    /\ accessToken = Null
    /\ refreshToken = Null
    /\ tokenExpiry = Null
    /\ store = NoAuth

\* Call p is a setAuthenticationData that installs its AuthData in this
\* step.
Installs(p) ==
    /\ call[p].op = "setAuthenticationData"
    /\ call[p].pc = "storing"
    /\ call'[p].pc = "done"

\* C34: once logout() has completed on a session of the secure-store
\* revision and has left it logged out, no step of a wallet operation that
\* was already under way (such as a refresh whose response arrives
\* afterwards) puts tokens back into memory or writes the persisted record
\* again: the session stays logged out until setAuthenticationData
\* installs the tokens of a new login.
C34_LogoutIsFinal ==
    [][(/\ variant = "secure"
        /\ LoggedOut
        /\ \E p \in Procs : call[p].op = "logout" /\ call[p].pc = "done")
          => (LoggedOut' \/ \E q \in Procs : Installs(q))]_vars

\* No storeAuthData and no logout is under way.
Quiet == \A p \in Procs : call[p].pc \notin {"storing", "deleting"}

\* Call p's storeAuthData ends in this step.
StoreEnds(p) == call[p].pc = "storing" /\ call'[p].pc # "storing"

\* C35: in the secure-store revision, whenever no storeAuthData or logout
\* is under way, a session that holds tokens and has a persisted record
\* holds exactly the tokens and expiry derived from that record; and every
\* storeAuthData either writes the record and takes its tokens, or (the
\* write failed) leaves both the token fields and the record as they were,
\* in which case setAuthenticationData throws.
C35_MemoryMatchesStore ==
    /\ [](((/\ Quiet
            /\ store # NoAuth
            /\ InMemory # DerivedFrom(NoAuth))
              => InMemory = DerivedFrom(store)))
    /\ [][\A p \in Procs :
            StoreEnds(p) =>
              \/ /\ store' = call[p].pend
                 /\ InMemory' = DerivedFrom(call[p].pend)
                 /\ call[p].op = "setAuthenticationData"
                      => call'[p].result = Value("void")
              \/ /\ UNCHANGED <<store, accessToken, refreshToken,
                                tokenExpiry>>
                 /\ call[p].op = "setAuthenticationData"
                      => call'[p].result = Thrown(StoreThrowMsg)]_vars

\* C35 witness: the session holds pair 1 and its record; a
\* setAuthenticationData with the tokens of a newer login has thrown, and
\* the session and the record are still those of pair 1.
C35_Witness ==
    /\ Quiet
    /\ store = AuthData(1, T0)
    /\ InMemory = DerivedFrom(AuthData(1, T0))
    /\ nextTok > 2
    /\ \E p \in Procs :
          /\ call[p].op = "setAuthenticationData"
          /\ call[p].pc = "done"
          /\ call[p].result = Thrown(StoreThrowMsg)

\* Call p's refresh ends in this step.
RefreshEnds(p) == Refreshing(p) /\ ~Refreshing(p)'

\* C36: a refresh that fails (nothing to send, a non-2xx status, a body
\* that is not JSON or lacks the tokens, a transport exception, a failed
\* write) leaves accessToken, refreshToken and the expiry as they were:
\* when a refresh ends, the token fields are unchanged unless the endpoint
\* answered with a complete new pair, which they then hold.  And a session
\* without a refresh token sends no refresh request.
C36_FailedRefreshKeepsTokens ==
    [][\A p \in Procs :
          /\ RefreshEnds(p) =>
               \/ UNCHANGED <<accessToken, refreshToken, tokenExpiry>>
               \/ /\ ~Falsy(call[p].pend.accessToken)
                  /\ ~Falsy(call[p].pend.refreshToken)
                  /\ InMemory' = DerivedFrom(call[p].pend)
          /\ SendsRefresh(p) => ~Falsy(refreshToken)]_vars

\* The positions of handleLogin at which an attempt is under way.
InFlight == {"RequestingAuthUrl", "AwaitingBrowserResult"}

\* C37: a sign-in button has at most one login attempt under way.  The
\* loading flag is set exactly while an attempt is under way: it is set
\* when the attempt starts and cleared on every terminal outcome (Success,
\* Cancelled, Failed, an exception leaving handleLogin included); and an
\* attempt starts only while the flag is clear, the button being disabled
\* while it is set.  So the button is never left disabled.
C37_OneAttemptInFlight ==
    /\ [](login.loading <=> login.pc \in InFlight)
    /\ [][login'.attempts # login.attempts =>
            /\ ~login.loading
            /\ login.pc \notin InFlight
            /\ login'.attempts = login.attempts + 1
            /\ login'.loading]_vars

\* C37 witness: the second attempt on a button has ended with an
\* exception leaving handleLogin (onError threw inside the catch block),
\* and the flag is clear.
C37_Witness ==
    /\ login.attempts = 2
    /\ login.pc = "Failed"
    /\ login.escaped
    /\ ~login.loading

\* The terminal positions of a login attempt.
Terminal == {"Success", "Cancelled", "Failed"}

\* C38: if every external call (HTTP request, secure-storage access,
\* browser session) eventually resolves or rejects, every call of execute,
\* swap, isAuthenticated and logout eventually returns, and every login
\* attempt eventually reaches Success, Cancelled or Failed.
C38_EveryCallReturns ==
    /\ \A p \in Procs :
         (/\ call[p].op \in {"execute", "swap", "isAuthenticated", "logout"}
          /\ call[p].pc \notin {"idle", "done"})
            ~> (call[p].pc = "done")
    /\ (login.button \in Buttons /\ login.pc \in InFlight)
          ~> (login.button \in Buttons /\ login.pc \in Terminal)

\* C38 witness: an execute that refreshed, stored the new tokens and sent
\* its request has returned the transaction hash.
C38_Witness ==
    \E p \in Procs :
        /\ call[p].op = "execute"
        /\ call[p].pc = "done"
        /\ call[p].nRefresh = 1
        /\ call[p].nGateway = 1
        /\ variant = "secure"
        /\ store.accessToken = 2
        /\ call[p].result = Value("hash")

====
